---- MODULE Spec2Model ----
(***************************************************************************)
(* ai-patch-doctor: the code fixer (src/python/src/ai_patch/fixer.py) and  *)
(* the structural pass of the code scanner                                 *)
(* (src/python/src/ai_patch/code_scanner.py), as state machines.           *)
(*                                                                         *)
(* Spec      CodeFixer: scan_for_fixes and apply_fixes over a small tree.  *)
(* ScanSpec  CodeScanner: the AST pass over the call nodes of one file.    *)
(* TreeSpec  CodeScanner.scan and scan_codebase over a tree of files.      *)
(* FindSpec  CodeFixer._find_source_files over a tree of paths.            *)
(* CheckSpec run_checks: the four live checks and the status each returns. *)
(*                                                                         *)
(* Text is modelled at token granularity: a line is a sequence of tokens,  *)
(* a substring test is a test on the tokens of a line.  Every line of the  *)
(* initial tree carries a token naming its position, so that the fate of   *)
(* each original line can be followed through the edits.                   *)
(***************************************************************************)
EXTENDS Integers, Sequences, FiniteSets, Bags, TLC

\* ------------------------------------------------------------------ bounds
\* Lines of a.py in the initial tree.
MaxLen == 2
\* Length of a fix list a caller hands to apply_fixes.
MaxFixes == 2
\* Call nodes of the Python file the scanner parses.
MaxCalls == 2
\* Lines of the file whose content varies in the tree the scanner walks.
MaxScanLen == 2
\* Calls of scan() on one tree.
MaxScans == 2

VARIABLES
    dry_run,      \* CodeFixer.dry_run
    selfFixes,    \* CodeFixer.fixes
    scans,        \* history: the lists scan_for_fixes returned, in call order
    disk,         \* file -> [lines, nl]: the file's lines, and whether the last one ends in "\n"
    perm,         \* file -> "rw" | "r" | "none": what open() allows
    callerFixes,  \* the list a caller is about to hand to apply_fixes
    pc,           \* position of the fixer: idle, scanned, scan_raised, loop, edit, write, done,
                  \* raised, rescanned
    input,        \* apply_fixes: the parameter fixes
    idx,          \* apply_fixes: 1-based position of the for loop in input
    buf,          \* _apply_fix: the local variable lines
    result,       \* apply_fixes: the FixResult under construction
    disk0,        \* history: disk when apply_fixes was called
    log,          \* history: the opens, writes and failures of _apply_fix, in order
    calls,        \* CodeScanner: the ast.Call nodes of the file, in ast.walk order
    cpos,         \* CodeScanner: 1-based position of _analyze_python_ast in calls
    findings,     \* CodeScanner.findings
    spc,          \* position of the scanner: ast, patterns, aborted, done; new, files, returned
    root,         \* the directory a walk starts from, as the parts of its path
    tree,         \* the entries below root: path, file or directory, readable, source lines
    listed,       \* CodeScanner.scan: python_files and js_files, as positions in tree
    fpos,         \* CodeScanner.scan: 1-based position of the two for loops in listed
    scanlog,      \* history: what _scan_python_file / _scan_javascript_file did, per file
    returned,     \* history: what each call of scan() returned
    found,        \* what _find_source_files returned
    targets,      \* run_checks: targets_to_run
    results,      \* run_checks: results, in the order the checks ran
    prompt        \* the doctor command: its flags, the terminal, and how far it has come

fixerVars == <<dry_run, selfFixes, scans, disk, perm, callerFixes, pc, input, idx, buf, result, disk0, log>>
treeVars == <<root, tree, listed, fpos, scanlog, returned, found>>
checkVars == <<targets, results, prompt>>
scannerVars == <<calls, cpos, findings, spc, root, tree, listed, fpos, scanlog, returned, found,
                 targets, results, prompt>>
vars == <<dry_run, selfFixes, scans, disk, perm, callerFixes, pc, input, idx, buf, result, disk0, log,
          calls, cpos, findings, spc, root, tree, listed, fpos, scanlog, returned, found,
          targets, results, prompt>>

\* ------------------------------------------------------------------- text
\* A token of text; n > 0 only for the token that names an original line.
T(s) == [s |-> s, n |-> 0]
Orig(i) == [s |-> "#", n |-> i]

\* str.lower() on a token.
Lower(s) ==
    CASE s = "Retry" -> "retry"
      [] s = "X-Accel-Buffering" -> "x-accel-buffering"
      [] s = "Chat" -> "chat"
      [] s = "Create" -> "create"
      [] s = "Idempotency-Key" -> "idempotency-key"
      [] s = "setTimeout(f, " -> "settimeout(f, "
      [] OTHER -> s

\* pat in tok: the substring test between a pattern and a token of the model.
Sub(pat, tok) ==
    \/ pat = tok
    \/ pat = "sleep(1)" /\ tok = "time.sleep(1)"
    \/ pat = "retry" /\ tok = "retry-backoff"
    \/ pat = "timeout" /\ tok = "missing-timeout"
    \/ pat = ".create" /\ tok = "client.chat.completions.create("
    \/ pat = "completions" /\ tok = "client.chat.completions.create("
    \/ pat = "client.chat" /\ tok = "client.chat.completions.create("
    \/ /\ pat \in {"chat.completions.create", "completions.create", "create(", ".create("}
       /\ tok \in {"client.chat.completions.create(", ".chat.completions.create("}
    \/ pat \in {".create", "completions"} /\ tok = ".chat.completions.create("
    \/ pat \in {"create(", ".create(", ".create"} /\ tok = "db.create("
    \/ pat = "idempotency" /\ tok = "idempotency-key"
    \/ pat = "attempt" /\ tok = "for attempt in range("
    \/ pat = "gpt-4" /\ tok \in {"\"gpt-4\"", "'gpt-4'"}
    \/ pat \in {"stream", "true"} /\ tok = "stream: true"
    \/ pat = "stream" /\ tok \in {"stream=s", "stream=True"}

\* pat in line
Has(line, pat) == \E i \in DOMAIN line : Sub(pat, line[i].s)
\* pat in line.lower()
HasLower(line, pat) == \E i \in DOMAIN line : Sub(pat, Lower(line[i].s))

\* ------------------------------------------------------------------ files
FileA == "a.py"
FileB == "b.py"
\* The order in which _find_source_files lists the tree.
Files == <<FileA, FileB>>
FileSet == {Files[i] : i \in DOMAIN Files}

\* The lines a.py is built from.
Kinds == {"plain", "stream", "sleep", "create"}
KindText(k) ==
    CASE k = "plain"  -> <<T("x = 1")>>
      [] k = "stream" -> <<T("r = f("), T("stream=True"), T(")")>>
      [] k = "sleep"  -> <<T("time.sleep(1)"), T("  # "), T("Retry")>>
      [] k = "create" -> <<T("client.chat.completions.create("), T("messages"), T("=m)")>>
      [] k = "accel" -> <<T("headers={"), T("X-Accel-Buffering"), T(": no}")>>
      [] k = "timeout" -> <<T("timeout"), T("=60.0,")>>
      [] k = "max_retries" -> <<T("max_retries"), T("=3,")>>
      [] k = "max_tokens" -> <<T("max_tokens"), T("=1000,")>>
      [] k = "request_id" -> <<T("headers={"), T("x-request-id"), T(": rid}")>>
      [] k = "idempotency" -> <<T("# "), T("idempotency")>>
MkLines(ks) == [i \in DOMAIN ks |-> <<Orig(i)>> \o KindText(ks[i])]
KindSeqs == UNION {[1..n -> Kinds] : n \in 0..MaxLen}
\* Files that reach past the windows of the detectors: a trigger line, then gap
\* plain lines, then a line with a token a detector looks for; the token line is the
\* last of a window of 10 (gap 8) or of 15 (gap 13), or the first line after it.
Gaps == {8, 9, 13, 14}
TokenKinds == {"accel", "timeout", "max_retries", "max_tokens", "request_id", "idempotency"}
LongKinds(trigger, gap, token) ==
    [i \in 1..(gap + 2) |-> IF i = 1 THEN trigger ELSE IF i = gap + 2 THEN token ELSE "plain"]
LongContents ==
    {[lines |-> MkLines(LongKinds(trigger, gap, token)), nl |-> TRUE] :
        trigger \in {"stream", "create"}, gap \in Gaps, token \in TokenKinds}
\* A file with no line has no unterminated last line.
Contents ==
    {[lines |-> MkLines(ks), nl |-> b] : ks \in {k \in KindSeqs : k # <<>>}, b \in BOOLEAN}
        \cup {[lines |-> <<>>, nl |-> TRUE]}
        \cup LongContents
IsPlain(c) == \A i \in DOMAIN c.lines : c.lines[i] = <<Orig(i)>> \o KindText("plain")
BContent == [lines |-> <<<<Orig(1)>> \o KindText("plain")>>, nl |-> TRUE]

NumLines(c) == Len(c.lines)

\* f.read().split('\n'): the text after a final "\n" is one more, empty, line.
SplitLines(c) == IF c.nl THEN Append(c.lines, <<>>) ELSE c.lines

\* f.readlines(): every element but perhaps the last ends in "\n".
ReadLines(c) ==
    [i \in DOMAIN c.lines |-> [text |-> c.lines[i], nl |-> (i < Len(c.lines)) \/ c.nl]]

\* The file f.writelines(b) leaves: the elements concatenated, so an element that
\* does not end in "\n" runs into the one after it.
RECURSIVE Merge(_)
Merge(b) ==
    IF Len(b) <= 1 THEN b
    ELSE IF ~b[1].nl
         THEN Merge(<<[text |-> b[1].text \o b[2].text, nl |-> b[2].nl]>> \o Tail(Tail(b)))
         ELSE <<b[1]>> \o Merge(Tail(b))
WriteLines(b) ==
    LET m == Merge(b)
    IN  [lines |-> [i \in DOMAIN m |-> m[i].text],
         nl |-> IF m = <<>> THEN TRUE ELSE m[Len(m)].nl]

\* ------------------------------------------------------------------ fixes
Fix(file, line, type, issue, suggestion, code) ==
    [file |-> file, line |-> line, type |-> type, issue |-> issue,
     suggestion |-> suggestion, code |-> code]

\* A lone surrogate, which a str may hold and UTF-8 cannot encode.
Surrogate == "\\udcff"
\* What a caller may put in a list: fixes of every type for a.py, on each of its
\* lines and on the line after the longest file, an add and a modify fix without
\* code, one fix for b.py, and an add fix whose code cannot be encoded.
CallerUniverse ==
    {Fix(FileA, l, t, "caller", "by hand", <<T("CODE")>>) :
        l \in 1..(MaxLen + 1), t \in {"add", "modify", "remove"}}
    \cup {Fix(FileA, 1, t, "caller", "by hand", <<>>) : t \in {"add", "modify"}}
    \cup {Fix(FileB, 1, "add", "caller", "by hand", <<T("CODE")>>)}
    \cup {Fix(FileA, 1, "add", "caller", "by hand", <<T("CODE"), T(Surrogate)>>)}
CallerLists == UNION {[1..n -> CallerUniverse] : n \in 0..MaxFixes}

\* f'{indent}{fix.code}  # AI Patch fix: {fix.issue}\n', without its "\n".
FixText(fix) == <<T("    ")>> \o fix.code \o <<T("  # AI Patch fix: "), T(fix.issue)>>
FixLine(fix) == [text |-> FixText(fix), nl |-> TRUE]

\* list.insert(i, x) for i >= 0: an index past the end appends.
ListInsert(s, i, x) ==
    IF i >= Len(s) THEN Append(s, x)
    ELSE SubSeq(s, 1, i) \o <<x>> \o SubSeq(s, i + 1, Len(s))

\* fix.code is truthy
HasCode(fix) == fix.code # <<>>

\* _apply_fix, lines[fix.line - 1] = ...: the index is in range (fix.line >= 1 here).
IndexOK(lines, fix) == fix.line - 1 < Len(lines)

\* _apply_fix: whether the edit of lines raises IndexError.
EditRaises(lines, fix) == fix.type = "modify" /\ HasCode(fix) /\ ~IndexOK(lines, fix)

\* Mutant of EditLines: a modify fix inserts its line instead of replacing one.
EditLines_ModifyInserts(lines, fix) ==
    IF fix.type = "add" /\ HasCode(fix) THEN ListInsert(lines, fix.line, FixLine(fix))
    ELSE IF fix.type = "modify" /\ HasCode(fix)
         THEN ListInsert(lines, fix.line - 1, FixLine(fix))
         ELSE lines

\* Mutant of EditLines: an add fix inserts at fix.line - 1, before the line it names.
EditLines_AddBefore(lines, fix) ==
    IF fix.type = "add" /\ HasCode(fix) THEN ListInsert(lines, fix.line - 1, FixLine(fix))
    ELSE IF fix.type = "modify" /\ HasCode(fix)
         THEN [lines EXCEPT ![fix.line] = FixLine(fix)]
         ELSE lines

\* _apply_fix: lines after the edit, when it does not raise.
EditLines(lines, fix) ==
    IF fix.type = "add" /\ HasCode(fix) THEN ListInsert(lines, fix.line, FixLine(fix))
    ELSE IF fix.type = "modify" /\ HasCode(fix)
         THEN [lines EXCEPT ![fix.line] = FixLine(fix)]
         ELSE lines

NoResult == [applied |-> <<>>, skipped |-> <<>>, errors |-> <<>>]
ErrorEntry(fix, e) == [fix |-> fix, error |-> e]

\* --------------------------------------------------------- scan_for_fixes
\* Program constants of the detectors.
StreamingWindow == 10
TimeoutWindow == 15
CostWindow == 15
TraceWindow == 15
RetryBefore == 5
RetryAfter == 5

Min(a, b) == IF a <= b THEN a ELSE b
Max(a, b) == IF a >= b THEN a ELSE b

\* Mutant of Window: the window takes one line more, lines[index:index + w + 1].
Window_OneMore(lines, p, w) == p..Min(p + w, Len(lines))

\* The positions of lines[index:index + w], 1-based, for the line at position p.
Window(lines, p, w) == p..Min(p + w - 1, Len(lines))
\* '\n'.join(window) contains pat
WindowHas(lines, win, pat) == \E q \in win : Has(lines[q], pat)

\* A finite set of numbers as the ascending sequence enumerate() meets them in.
RECURSIVE SortedSeq(_)
SortedSeq(S) ==
    IF S = {} THEN <<>>
    ELSE LET m == CHOOSE x \in S : \A y \in S : x <= y
         IN  <<m>> \o SortedSeq(S \ {m})

StreamingTrigger(lines, p) ==
    /\ Has(lines[p], "stream=True") \/ Has(lines[p], "stream: true")
    /\ ~WindowHas(lines, Window(lines, p, StreamingWindow), "X-Accel-Buffering")
_detect_streaming_issues(file, lines) ==
    LET ps == SortedSeq({p \in DOMAIN lines : StreamingTrigger(lines, p)})
    IN  [k \in DOMAIN ps |->
            Fix(file, ps[k], "add", "streaming-headers",
                "Add X-Accel-Buffering: no header to prevent proxy buffering",
                <<T("headers={"), T("X-Accel-Buffering"), T(": no}")>>)]

\* lines[max(0, index - 5):min(len(lines), index + 5)], 1-based.
RetryContext(lines, p) == Max(1, p - RetryBefore)..Min(Len(lines), p + RetryAfter - 1)
RetryTrigger(lines, p) ==
    /\ Has(lines[p], "sleep(1)") \/ Has(lines[p], "time.sleep(1)")
    /\ \/ WindowHas(lines, RetryContext(lines, p), "429")
       \/ \E q \in RetryContext(lines, p) : HasLower(lines[q], "retry")
_detect_retry_issues(file, lines) ==
    LET ps == SortedSeq({p \in DOMAIN lines : RetryTrigger(lines, p)})
    IN  [k \in DOMAIN ps |->
            Fix(file, ps[k], "modify", "retry-backoff",
                "Use exponential backoff instead of linear retry",
                <<T("wait = min(1 * (2 ** attempt), 32)")>>)]

TimeoutTrigger(lines, p) ==
    /\ \E pat \in {"client.chat", "openai.", "anthropic."} : Has(lines[p], pat)
    /\ Has(lines[p], ".create") \/ Has(lines[p], "completions")
    /\ ~WindowHas(lines, Window(lines, p, TimeoutWindow), "timeout")
    /\ ~WindowHas(lines, Window(lines, p, TimeoutWindow), "max_retries")
_detect_timeout_issues(file, lines) ==
    LET ps == SortedSeq({p \in DOMAIN lines : TimeoutTrigger(lines, p)})
    IN  [k \in DOMAIN ps |->
            Fix(file, ps[k], "add", "missing-timeout",
                "Add timeout to prevent hanging requests",
                <<T("timeout"), T("=60.0  # 60 seconds")>>)]

CostTrigger(lines, p) ==
    /\ Has(lines[p], ".create") \/ Has(lines[p], "completions")
    /\ Has(lines[p], "messages") \/ Has(lines[p], "prompt")
    /\ ~WindowHas(lines, Window(lines, p, CostWindow), "max_tokens")
_detect_cost_issues(file, lines) ==
    LET ps == SortedSeq({p \in DOMAIN lines : CostTrigger(lines, p)})
    IN  [k \in DOMAIN ps |->
            Fix(file, ps[k], "add", "missing-max-tokens",
                "Add max_tokens to control costs",
                <<T("max_tokens"), T("=1000")>>)]

TraceTrigger(lines, p) ==
    /\ Has(lines[p], ".create") \/ Has(lines[p], "completions")
    /\ ~WindowHas(lines, Window(lines, p, TraceWindow), "x-request-id")
    /\ ~WindowHas(lines, Window(lines, p, TraceWindow), "idempotency")
_detect_traceability_issues(file, lines) ==
    LET ps == SortedSeq({p \in DOMAIN lines : TraceTrigger(lines, p)})
    IN  [k \in DOMAIN ps |->
            Fix(file, ps[k], "add", "missing-request-id",
                "Add request ID for traceability",
                <<T("headers={"), T("x-request-id"), T(": str(uuid.uuid4())}")>>)]

\* The body of scan_for_fixes' loop for one file: the five detectors, in order.
FileFixes(file, c) ==
    LET lines == SplitLines(c)
    IN  _detect_streaming_issues(file, lines) \o _detect_retry_issues(file, lines)
        \o _detect_timeout_issues(file, lines) \o _detect_cost_issues(file, lines)
        \o _detect_traceability_issues(file, lines)

\* self.fixes after the loop has passed the first n files.
RECURSIVE ScanUpTo(_)
ScanUpTo(n) == IF n = 0 THEN <<>> ELSE ScanUpTo(n - 1) \o FileFixes(Files[n], disk[Files[n]])

Readable(f) == perm[f] # "none"
Writable(f) == perm[f] = "rw"
Unreadable == {k \in DOMAIN Files : ~Readable(Files[k])}

\* scan_for_fixes returns self.fixes.
ScanForFixes ==
    /\ pc = "idle"
    /\ Unreadable = {}
    /\ selfFixes' = ScanUpTo(Len(Files))
    /\ scans' = Append(scans, selfFixes')
    /\ pc' = "scanned"
    /\ UNCHANGED <<dry_run, disk, perm, callerFixes, input, idx, buf, result, disk0, log>>
    /\ UNCHANGED scannerVars

\* scan_for_fixes: open() of an unreadable file raises, and nothing catches it;
\* self.fixes keeps the fixes of the files before it.
ScanForFixesRaises ==
    /\ pc = "idle"
    /\ Unreadable # {}
    /\ selfFixes' = ScanUpTo((CHOOSE k \in Unreadable : \A j \in Unreadable : k <= j) - 1)
    /\ pc' = "scan_raised"
    /\ UNCHANGED <<dry_run, scans, disk, perm, callerFixes, input, idx, buf, result, disk0, log>>
    /\ UNCHANGED scannerVars

\* Mutant of ScanForFixesAgain: the call does not start from an empty list.
ScanForFixesAgain_KeepsFixes ==
    /\ pc \in {"scanned", "done"}
    /\ Len(scans) = 1
    /\ Unreadable = {}
    /\ selfFixes' = selfFixes \o ScanUpTo(Len(Files))
    /\ scans' = Append(scans, selfFixes')
    /\ pc' = "rescanned"
    /\ UNCHANGED <<dry_run, disk, perm, callerFixes, input, idx, buf, result, disk0, log>>
    /\ UNCHANGED scannerVars

\* scan_for_fixes called a second time on the same CodeFixer, straight after the
\* first call or after apply_fixes has returned: self.fixes = [], then the loop.
ScanForFixesAgain ==
    /\ pc \in {"scanned", "done"}
    /\ Len(scans) = 1
    /\ Unreadable = {}
    /\ selfFixes' = ScanUpTo(Len(Files))
    /\ scans' = Append(scans, selfFixes')
    /\ pc' = "rescanned"
    /\ UNCHANGED <<dry_run, disk, perm, callerFixes, input, idx, buf, result, disk0, log>>
    /\ UNCHANGED scannerVars

\* ------------------------------------------------------------ apply_fixes
CurFix == input[idx]
InLoop == pc = "loop" /\ idx <= Len(input)

Entry(op, i, f, c) == [op |-> op, i |-> i, file |-> f, content |-> c]

\* apply_fixes(fixes): result = FixResult(applied=[], skipped=[], errors=[]).
Enter(fs) ==
    /\ input' = fs
    /\ idx' = 1
    /\ result' = NoResult
    /\ disk0' = disk
    /\ log' = <<>>
    /\ pc' = "loop"
    /\ UNCHANGED <<dry_run, scans, selfFixes, disk, perm, callerFixes, buf>>
    /\ UNCHANGED scannerVars

\* A caller hands apply_fixes a list of its own.
ApplyCallCaller == pc = "idle" /\ Enter(callerFixes)
\* The caller hands apply_fixes what scan_for_fixes returned.
ApplyCallScanned == pc = "scanned" /\ Enter(selfFixes)

\* Mutant of DryRunSkip: the dry-run branch reports the fix as applied.
DryRunSkip_ReportsApplied ==
    /\ pc = "loop" /\ idx <= Len(input) /\ dry_run
    /\ result' = [result EXCEPT !.applied = Append(@, input[idx])]
    /\ idx' = idx + 1
    /\ UNCHANGED <<dry_run, scans, selfFixes, disk, perm, callerFixes, pc, input, buf, disk0, log>>
    /\ UNCHANGED scannerVars

\* if self.dry_run: result.skipped.append(fix)
DryRunSkip ==
    /\ InLoop /\ dry_run
    /\ result' = [result EXCEPT !.skipped = Append(@, CurFix)]
    /\ idx' = idx + 1
    /\ UNCHANGED <<dry_run, scans, selfFixes, disk, perm, callerFixes, pc, input, buf, disk0, log>>
    /\ UNCHANGED scannerVars

\* Mutant of FileLines: _apply_fix works on the content the file had when
\* apply_fixes was called.
FileLines_Stale(f) == ReadLines(disk0[f])

\* The content _apply_fix reads from the file.
FileLines(f) == ReadLines(disk[f])

\* _apply_fix: open(fix.file, 'r') and f.readlines().
ReadOK ==
    /\ InLoop /\ ~dry_run
    /\ Readable(CurFix.file)
    /\ buf' = FileLines(CurFix.file)
    /\ log' = Append(log, Entry("read", idx, CurFix.file, WriteLines(FileLines(CurFix.file))))
    /\ pc' = "edit"
    /\ UNCHANGED <<dry_run, scans, selfFixes, disk, perm, callerFixes, input, idx, result, disk0>>
    /\ UNCHANGED scannerVars

\* Mutant of Except: applied.append(fix) placed before the call of _apply_fix, so
\* that a fix that fails is in applied and in errors.
Except_AfterApplied(e) ==
    /\ result' = [result EXCEPT !.errors = Append(@, ErrorEntry(input[idx], e)),
                                !.applied = Append(@, input[idx])]
    /\ idx' = idx + 1
    /\ pc' = "loop"
    /\ buf' = <<>>

\* Mutant of Except: the handler records the error and raises it again.
Except_Reraises(e) ==
    /\ result' = [result EXCEPT !.errors = Append(@, ErrorEntry(input[idx], e))]
    /\ idx' = idx
    /\ pc' = "raised"
    /\ buf' = <<>>

\* except Exception as e: result.errors.append({'fix': fix, 'error': str(e)}),
\* and the for loop goes on.
Except(e) ==
    /\ result' = [result EXCEPT !.errors = Append(@, ErrorEntry(CurFix, e))]
    /\ idx' = idx + 1
    /\ pc' = "loop"
    /\ buf' = <<>>

\* _apply_fix: open(fix.file, 'r') raises.
ReadFail ==
    /\ InLoop /\ ~dry_run
    /\ ~Readable(CurFix.file)
    /\ Except("Permission denied")
    /\ log' = Append(log, Entry("open_failed", idx, CurFix.file, disk[CurFix.file]))
    /\ UNCHANGED <<dry_run, scans, selfFixes, disk, perm, callerFixes, input, disk0>>
    /\ UNCHANGED scannerVars

\* _apply_fix: the edit of lines.
EditOK ==
    /\ pc = "edit"
    /\ ~EditRaises(buf, CurFix)
    /\ buf' = EditLines(buf, CurFix)
    /\ pc' = "write"
    /\ UNCHANGED <<dry_run, scans, selfFixes, disk, perm, callerFixes, input, idx, result, disk0, log>>
    /\ UNCHANGED scannerVars

\* _apply_fix: lines[fix.line - 1] = ... raises IndexError.
EditFail ==
    /\ pc = "edit"
    /\ EditRaises(buf, CurFix)
    /\ Except("list assignment index out of range")
    /\ log' = Append(log, Entry("edit_failed", idx, CurFix.file, disk[CurFix.file]))
    /\ UNCHANGED <<dry_run, scans, selfFixes, disk, perm, callerFixes, input, disk0>>
    /\ UNCHANGED scannerVars

\* result.applied.append(fix), after _apply_fix has returned.
Applied ==
    /\ result' = [result EXCEPT !.applied = Append(@, CurFix)]
    /\ idx' = idx + 1
    /\ pc' = "loop"
    /\ buf' = <<>>

\* f.writelines(lines) encodes the elements one by one: whether an element can be
\* encoded, and the elements before the first that cannot.
Encodable(x) == \A t \in DOMAIN x.text : x.text[t].s # Surrogate
Written(b) ==
    IF \A k \in DOMAIN b : Encodable(b[k]) THEN b
    ELSE SubSeq(b, 1, (CHOOSE k \in DOMAIN b :
                         ~Encodable(b[k]) /\ \A j \in 1..(k - 1) : Encodable(b[j])) - 1)

\* _apply_fix: open(fix.file, 'w') and f.writelines(lines).
WriteOK ==
    /\ pc = "write"
    /\ Writable(CurFix.file)
    /\ Written(buf) = buf
    /\ disk' = [disk EXCEPT ![CurFix.file] = WriteLines(buf)]
    /\ log' = Append(log, Entry("write", idx, CurFix.file, WriteLines(buf)))
    /\ Applied
    /\ UNCHANGED <<dry_run, scans, selfFixes, perm, callerFixes, input, disk0>>
    /\ UNCHANGED scannerVars

\* _apply_fix: open(fix.file, 'w') raises.
WriteFail ==
    /\ pc = "write"
    /\ ~Writable(CurFix.file)
    /\ Except("Permission denied")
    /\ log' = Append(log, Entry("write_failed", idx, CurFix.file, disk[CurFix.file]))
    /\ UNCHANGED <<dry_run, scans, selfFixes, disk, perm, callerFixes, input, disk0>>
    /\ UNCHANGED scannerVars

\* _apply_fix: open(fix.file, 'w') has truncated the file when f.writelines(lines)
\* raises UnicodeEncodeError; closing the file writes the elements encoded so far.
WriteRaises ==
    /\ pc = "write"
    /\ Writable(CurFix.file)
    /\ Written(buf) # buf
    /\ disk' = [disk EXCEPT ![CurFix.file] = WriteLines(Written(buf))]
    /\ Except("'utf-8' codec can't encode character: surrogates not allowed")
    /\ log' = Append(log, Entry("write_raised", idx, CurFix.file, WriteLines(Written(buf))))
    /\ UNCHANGED <<dry_run, scans, selfFixes, perm, callerFixes, input, disk0>>
    /\ UNCHANGED scannerVars

\* return result
Return ==
    /\ pc = "loop" /\ idx > Len(input)
    /\ pc' = "done"
    /\ UNCHANGED <<dry_run, scans, selfFixes, disk, perm, callerFixes, input, idx, buf, result, disk0, log>>
    /\ UNCHANGED scannerVars

\* What open() allows on the two files.
PermScenarios ==
    {[f \in FileSet |-> "rw"],
     [f \in FileSet |-> IF f = FileA THEN "r" ELSE "rw"],
     [f \in FileSet |-> IF f = FileA THEN "none" ELSE "rw"],
     [f \in FileSet |-> IF f = FileB THEN "none" ELSE "rw"]}

\* CodeFixer(dry_run) over a tree of two files; the scanner is not in use.
\* No walk of a tree is under way, and no check has run.
TreeIdle ==
    /\ root = <<"proj">>
    /\ tree = <<>>
    /\ listed = <<>>
    /\ fpos = 1
    /\ scanlog = <<>>
    /\ returned = <<>>
    /\ found = <<>>
ChecksIdle == targets = <<>> /\ results = <<>>
\* No doctor command is running.
NoPrompt == [at |-> "idle"]
PromptIdle == prompt = NoPrompt
ScannerIdle ==
    /\ calls = <<>> /\ cpos = 1 /\ findings = <<>> /\ spc = "done"
    /\ TreeIdle /\ ChecksIdle
Init ==
    /\ dry_run \in BOOLEAN
    /\ selfFixes = <<>>
    /\ scans = <<>>
    /\ \E c \in Contents : disk = [f \in FileSet |-> IF f = FileA THEN c ELSE BContent]
    /\ perm \in PermScenarios
    /\ callerFixes \in IF IsPlain(disk[FileA]) THEN CallerLists ELSE {<<>>}
    /\ pc = "idle"
    /\ input = <<>>
    /\ idx = 1
    /\ buf = <<>>
    /\ result = NoResult
    /\ disk0 = disk
    /\ log = <<>>
    /\ ScannerIdle
    /\ PromptIdle

Next ==
    \/ ScanForFixes
    \/ ScanForFixesRaises
    \/ ScanForFixesAgain
    \/ ApplyCallCaller
    \/ ApplyCallScanned
    \/ DryRunSkip
    \/ ReadOK
    \/ ReadFail
    \/ EditOK
    \/ EditFail
    \/ WriteOK
    \/ WriteFail
    \/ WriteRaises
    \/ Return

Spec == Init /\ [][Next]_vars

\* ------------------------------------------------------------ CodeScanner
\* An expression of the syntax tree, as the chain of its nodes from the outermost
\* inwards: client.chat is <<Attribute chat, Name client>>, True is <<Constant True>>.
Node(kind, v) == [node |-> kind, v |-> v]
NameExpr(id) == <<Node("Name", id)>>
ConstExpr(v) == <<Node("Constant", v)>>
AttrExpr(e, attr) == <<Node("Attribute", attr)>> \o e

\* The callees of the calls in the file.
Callees ==
    {AttrExpr(AttrExpr(AttrExpr(NameExpr("client"), "chat"), "completions"), "create"),
     AttrExpr(AttrExpr(NameExpr("client"), "Chat"), "send"),
     AttrExpr(NameExpr("client"), "Create"),
     NameExpr("print")}
\* The values a stream keyword is given: True, False, a variable, True.real.
StreamValues ==
    {ConstExpr("True"), ConstExpr("False"), NameExpr("s"), AttrExpr(ConstExpr("True"), "real")}
\* node.keywords, by name.
KeywordSets ==
    {[k \in ks |-> CASE k = "max_tokens" -> ConstExpr("100")
                     [] k = "timeout" -> ConstExpr("30")
                     [] k = "stream" -> sv] :
        ks \in SUBSET {"max_tokens", "timeout", "stream"}, sv \in StreamValues}
CallShapes == {[func |-> f, keywords |-> kw] : f \in Callees, kw \in KeywordSets}
\* The file's calls, one to a line.
WithLines(sh) ==
    [i \in DOMAIN sh |-> [func |-> sh[i].func, keywords |-> sh[i].keywords, lineno |-> i]]

\* _get_call_name: the attrs from the callee inwards, then the root's id if the root
\* is a Name, reversed; the segments that '.' joins.
RECURSIVE Reverse(_)
Reverse(s) == IF s = <<>> THEN <<>> ELSE Append(Reverse(Tail(s)), Head(s))
RECURSIVE AttrParts(_)
AttrParts(e) ==
    IF e = <<>> THEN <<>>
    ELSE IF Head(e).node = "Attribute" THEN <<Head(e).v>> \o AttrParts(Tail(e))
    ELSE IF Head(e).node = "Name" THEN <<Head(e).v>>
    ELSE <<>>
\* Mutant of _get_call_name: '.'.join(parts), the parts not reversed.
_get_call_name_LeafFirst(node) ==
    IF Head(node.func).node = "Attribute" THEN AttrParts(node.func)
    ELSE IF Head(node.func).node = "Name" THEN <<Head(node.func).v>>
    ELSE <<>>

\* _get_call_name: the segments of the dotted name it returns.
_get_call_name(node) ==
    IF Head(node.func).node = "Attribute" THEN Reverse(AttrParts(node.func))
    ELSE IF Head(node.func).node = "Name" THEN <<Head(node.func).v>>
    ELSE <<>>

\* 'create' in call_name or 'chat' in call_name.lower()
InScope(node) ==
    LET call_name == _get_call_name(node)
    IN  \/ \E i \in DOMAIN call_name : Sub("create", call_name[i])
        \/ \E i \in DOMAIN call_name : Sub("chat", Lower(call_name[i]))

Finding(line, category, severity, issue) ==
    [line |-> line, category |-> category, severity |-> severity, issue |-> issue]

\* kwargs['stream'].value: a Constant's value is a Python value, an Attribute's
\* is a node, and a Name has none (AttributeError).
StreamCheck(node) ==
    IF "stream" \notin DOMAIN node.keywords THEN "none"
    ELSE LET e == node.keywords["stream"]
         IN  IF Head(e).node = "Name" THEN "raise"
             ELSE IF /\ Head(e).node = "Attribute"
                     /\ Head(Tail(e)).node = "Constant"
                     /\ Head(Tail(e)).v = "True"
                  THEN "finding"
                  ELSE "none"

\* What _check_python_api_call appends for one call, up to where it returns or raises.
CallFindings(node) ==
    IF ~InScope(node) THEN <<>>
    ELSE (IF "max_tokens" \notin DOMAIN node.keywords
          THEN <<Finding(node.lineno, "cost", "warning", "Missing max_tokens parameter")>>
          ELSE <<>>)
      \o (IF "timeout" \notin DOMAIN node.keywords
          THEN <<Finding(node.lineno, "streaming", "warning", "Missing timeout parameter")>>
          ELSE <<>>)
      \o (IF StreamCheck(node) = "finding"
          THEN <<Finding(node.lineno, "streaming", "warning", "Streaming enabled without timeout")>>
          ELSE <<>>)
CallRaises(node) == InScope(node) /\ StreamCheck(node) = "raise"

\* _analyze_python_ast: _check_python_api_call on the next call node.
CheckCall ==
    /\ spc = "ast" /\ cpos <= Len(calls)
    /\ ~CallRaises(calls[cpos])
    /\ findings' = findings \o CallFindings(calls[cpos])
    /\ cpos' = cpos + 1
    /\ UNCHANGED <<calls, spc>>
    /\ UNCHANGED <<treeVars, checkVars>>
    /\ UNCHANGED fixerVars

\* _check_python_api_call raises; _scan_python_file's outer except ends the file's scan.
CheckCallRaises ==
    /\ spc = "ast" /\ cpos <= Len(calls)
    /\ CallRaises(calls[cpos])
    /\ findings' = findings \o CallFindings(calls[cpos])
    /\ spc' = "aborted"
    /\ UNCHANGED <<calls, cpos>>
    /\ UNCHANGED <<treeVars, checkVars>>
    /\ UNCHANGED fixerVars

\* _analyze_python_ast returns: control reaches the pattern-based analysis.
AstDone ==
    /\ spc = "ast" /\ cpos > Len(calls)
    /\ spc' = "patterns"
    /\ UNCHANGED <<calls, cpos, findings>>
    /\ UNCHANGED <<treeVars, checkVars>>
    /\ UNCHANGED fixerVars

FixerIdle ==
    /\ dry_run = TRUE
    /\ selfFixes = <<>>
    /\ scans = <<>>
    /\ disk = [f \in FileSet |-> BContent]
    /\ perm = [f \in FileSet |-> "rw"]
    /\ callerFixes = <<>>
    /\ pc = "idle"
    /\ input = <<>>
    /\ idx = 1
    /\ buf = <<>>
    /\ result = NoResult
    /\ disk0 = disk
    /\ log = <<>>

\* CodeScanner(directory) about to scan one parsed Python file.
ScanInit ==
    /\ FixerIdle
    /\ \E n \in 0..MaxCalls : \E sh \in [1..n -> CallShapes] : calls = WithLines(sh)
    /\ cpos = 1
    /\ findings = <<>>
    /\ spc = "ast"
    /\ TreeIdle /\ ChecksIdle /\ PromptIdle

ScanNext ==
    \/ CheckCall
    \/ CheckCallRaises
    \/ AstDone

ScanSpec == ScanInit /\ [][ScanNext]_vars

\* ------------------------------------------------- the tree a walk visits
\* Path.suffix of a name, and whether a part of a path starts with a dot.
Suffix(name) ==
    CASE name \in {"a.py", "b.py", ".f.py", "lib.py", "node_modules.py"} -> ".py"
      [] name = "c.js" -> ".js"
      [] name = "d.ts" -> ".ts"
      [] name = "g.jsx" -> ".jsx"
      [] name = "h.tsx" -> ".tsx"
      [] name = "e.txt" -> ".txt"
      [] OTHER -> ""
StartsWithDot(part) == part \in {".git", ".f.py", ".cache", ".."}

\* An entry below the root: its path relative to the root, whether it is a file,
\* whether open() and decoding succeed on it, and the kinds of its source lines.
TreeEntry(path, isfile, readable, src) ==
    [path |-> path, isfile |-> isfile, readable |-> readable, src |-> src]
Name(e) == e.path[Len(e.path)]

\* The lines a Python file is built from, and those of a JavaScript file.
PyKinds ==
    {"plain", "loop10", "loop11", "attempt11", "retry", "retry_far", "create", "create_var", "dbcreate",
     "syntax", "idem", "request", "sleep", "gpt4", "mult"}
JsKinds ==
    {"jsplain", "jsloop10", "jsloop11", "jsretry", "jscreate", "jssettimeout", "jsstream",
     "jsgpt4"}
\* 250 characters of filler.
Filler == [i \in 1..25 |-> T("----------")]
SrcText(k) ==
    CASE k = "plain" -> <<T("x = 1")>>
      [] k = "loop10" -> <<T("for i in range("), T("10"), T("): pass")>>
      [] k = "loop11" -> <<T("for i in range("), T("11"), T("): pass")>>
      [] k = "attempt11" -> <<T("for attempt in range("), T("11"), T("): pass")>>
      [] k = "retry" -> <<T("# "), T("Retry")>>
      [] k = "retry_far" -> <<T("# ")>> \o Filler \o <<T("retry")>>
      [] k = "create" ->
            <<T("r = "), T("client.chat.completions.create("), T("messages"), T("=m)")>>
      [] k = "create_var" ->
            <<T("r = "), T("client.chat.completions.create("), T("messages"), T("=m, "),
              T("stream=s"), T(")")>>
      [] k = "dbcreate" -> <<T("x = "), T("db.create("), T("1)")>>
      [] k = "syntax" -> <<T("def (:")>>
      [] k = "idem" -> <<T("# "), T("Idempotency-Key")>>
      [] k = "request" -> <<T("# "), T("request")>>
      [] k = "sleep" -> <<T("time.sleep(1)")>>
      [] k = "gpt4" -> <<T("model = "), T("\"gpt-4\"")>>
      [] k = "mult" -> <<T("p = "), T("\"x\" * "), T("1000")>>
      [] k = "for15" -> <<T("for attempt in range("), T("15"), T("):")>>
      [] k = "in_create" ->
            <<T("    "), T("r = "), T("client.chat.completions.create("), T("model="),
              T("\"gpt-4\""), T(", "), T("messages"), T("=m, "), T("stream=True"), T(")")>>
      [] k = "in_sleep" -> <<T("    "), T("time.sleep(1)")>>
      [] k = "jsplain" -> <<T("let x = 1;")>>
      [] k = "jsloop10" -> <<T("for (let i = 0; i < "), T("10"), T("; i++) {}")>>
      [] k = "jsloop11" -> <<T("for (let i = 0; i < "), T("11"), T("; i++) {}")>>
      [] k = "jsretry" -> <<T("// "), T("retry")>>
      [] k = "jscreate" ->
            <<T("r = await openai"), T(".chat.completions.create("), T("{messages});")>>
      [] k = "jssettimeout" -> <<T("setTimeout(f, "), T("1000"), T(")")>>
      [] k = "jsstream" -> <<T("stream: true")>>
      [] k = "jsgpt4" -> <<T("model: "), T("'gpt-4'")>>
\* content.split('\n') of a file whose every line ends in "\n".
SrcLines(src) == [i \in 1..(Len(src) + 1) |-> IF i <= Len(src) THEN SrcText(src[i]) ELSE <<>>]

\* The call expression a line holds, if any: its callee and its keywords.
SrcCall(k) ==
    CASE k \in {"loop10", "loop11", "attempt11", "for15"} ->
            <<[func |-> NameExpr("range"), keywords |-> <<>>]>>
      [] k = "in_create" ->
            <<[func |-> AttrExpr(AttrExpr(AttrExpr(NameExpr("client"), "chat"), "completions"),
                                 "create"),
               keywords |-> [x \in {"model", "messages", "stream"} |->
                                CASE x = "model" -> ConstExpr("gpt-4")
                                  [] x = "messages" -> NameExpr("m")
                                  [] x = "stream" -> ConstExpr("True")]]>>
      [] k = "create" ->
            <<[func |-> AttrExpr(AttrExpr(AttrExpr(NameExpr("client"), "chat"), "completions"),
                                 "create"),
               keywords |-> <<>>]>>
      [] k = "create_var" ->
            <<[func |-> AttrExpr(AttrExpr(AttrExpr(NameExpr("client"), "chat"), "completions"),
                                 "create"),
               keywords |-> [x \in {"stream"} |-> NameExpr("s")]]>>
      [] k = "dbcreate" ->
            <<[func |-> AttrExpr(NameExpr("db"), "create"), keywords |-> <<>>]>>
      [] k \in {"sleep", "in_sleep"} ->
            <<[func |-> AttrExpr(NameExpr("time"), "sleep"), keywords |-> <<>>]>>
      [] OTHER -> <<>>
\* ast.parse(content) raises SyntaxError: a line that is no statement, an indented
\* line that continues no block (IndentationError, a SyntaxError), or a block
\* opener with no indented line after it.
Opens(k) == k = "for15"
Indented(k) == k \in {"in_create", "in_sleep"}
SyntaxError(src) ==
    \E i \in DOMAIN src :
        \/ src[i] = "syntax"
        \/ Indented(src[i]) /\ ~(i > 1 /\ (Opens(src[i - 1]) \/ Indented(src[i - 1])))
        \/ Opens(src[i]) /\ ~(i < Len(src) /\ Indented(src[i + 1]))
\* The ast.Call nodes of the tree, in ast.walk order: one statement to a line, each
\* call at the same depth, so in line order.
RECURSIVE CallsFrom(_, _)
CallsFrom(src, i) ==
    IF i > Len(src) THEN <<>>
    ELSE [j \in DOMAIN SrcCall(src[i]) |->
             [func |-> SrcCall(src[i])[j].func, keywords |-> SrcCall(src[i])[j].keywords,
              lineno |-> i]]
         \o CallsFrom(src, i + 1)
SrcCalls(src) == CallsFrom(src, 1)

\* ------------------------------------------------ text-pattern analysis
\* Character offsets in content, 0-based: a line starts after the lines before it
\* and their "\n".
RECURSIVE SumLen(_, _)
SumLen(line, t) == IF t = 0 THEN 0 ELSE SumLen(line, t - 1) + Len(line[t].s)
LineLen(line) == SumLen(line, Len(line))
RECURSIVE LineStart(_, _)
LineStart(lines, p) ==
    IF p = 1 THEN 0 ELSE LineStart(lines, p - 1) + LineLen(lines[p - 1]) + 1
TokStart(lines, p, t) == LineStart(lines, p) + SumLen(lines[p], t - 1)
TokEnd(lines, p, t) == LineStart(lines, p) + SumLen(lines[p], t)

\* pat in content[a:b], and pat in content[a:b].lower()
SpanHas(lines, a, b, pat) ==
    \E p \in DOMAIN lines : \E t \in DOMAIN lines[p] :
        Sub(pat, lines[p][t].s) /\ TokStart(lines, p, t) >= a /\ TokEnd(lines, p, t) <= b
SpanHasLower(lines, a, b, pat) ==
    \E p \in DOMAIN lines : \E t \in DOMAIN lines[p] :
        /\ Sub(pat, Lower(lines[p][t].s))
        /\ TokStart(lines, p, t) >= a /\ TokEnd(lines, p, t) <= b
\* pat in content, and pat in content.lower()
ContentHas(lines, pat) == \E p \in DOMAIN lines : Has(lines[p], pat)
ContentHasLower(lines, pat) == \E p \in DOMAIN lines : HasLower(lines[p], pat)
\* for i, line in enumerate(lines, 1): if pat in line: ... break
FirstLine(lines, pat) ==
    LET ps == {p \in DOMAIN lines : Has(lines[p], pat)}
    IN  IF ps = {} THEN 0 ELSE CHOOSE p \in ps : \A q \in ps : p <= q

\* int() and str() on the numbers of the source.
int(s) ==
    CASE s = "1" -> 1 [] s = "9" -> 9 [] s = "10" -> 10 [] s = "11" -> 11 [] s = "15" -> 15
      [] s = "1000" -> 1000
str(n) ==
    CASE n = 1 -> "1" [] n = 10 -> "10" [] n = 11 -> "11" [] n = 15 -> "15" [] n = 1000 -> "1000"
IsDigits(s) == s \in {"1", "10", "11", "15", "1000"}

\* A match of a regular expression: the line it starts on, its span in content, and
\* its group 1 as a number.
Match(line, start, end, group) == [line |-> line, start |-> start, end |-> end, group |-> group]
\* The matches of  head\s*(\d+)tail  where head is a token, the number the token
\* after it, and tail, of length taillen, begins the token after that.
NumberMatches(lines, heads, tails, taillen) ==
    {Match(p, TokStart(lines, p, t), TokEnd(lines, p, t + 1) + taillen, int(lines[p][t + 1].s)) :
        <<p, t>> \in {pt \in UNION {{<<p, t>> : t \in DOMAIN lines[p]} : p \in DOMAIN lines} :
                        /\ lines[pt[1]][pt[2]].s \in heads
                        /\ pt[2] + 1 \in DOMAIN lines[pt[1]]
                        /\ IsDigits(lines[pt[1]][pt[2] + 1].s)
                        /\ \/ taillen = 0
                           \/ /\ pt[2] + 2 \in DOMAIN lines[pt[1]]
                              /\ lines[pt[1]][pt[2] + 2].s \in tails}}
\* The matches of a pattern that is one token.
TokenMatches(lines, tok) ==
    {Match(p, TokStart(lines, p, t), TokEnd(lines, p, t), 0) :
        <<p, t>> \in {pt \in UNION {{<<p, t>> : t \in DOMAIN lines[p]} : p \in DOMAIN lines} :
                        lines[pt[1]][pt[2]].s = tok}}
\* re.finditer: the matches from left to right.
RECURSIVE InOrder(_)
InOrder(ms) ==
    IF ms = {} THEN <<>>
    ELSE LET m == CHOOSE x \in ms : \A y \in ms : x.start <= y.start
         IN  <<m>> \o InOrder(ms \ {m})

\* Program constants of _analyze_python_patterns and _analyze_javascript_patterns.
RetryLoopSpan == 200
MaxAttempts == 10
SleepSpanBefore == 300
SleepSpanAfter == 100
PromptSpan == 500
PromptMultiplier == 100
CallSpan == 500

\* any(keyword in context.lower() for keyword in [...]) on content[a:b]
AnyKeyword(lines, a, b, keywords) == \E k \in keywords : SpanHasLower(lines, a, b, k)

\* Retry loops: for\s+\w+\s+in\s+range\s*\(\s*(\d+)\s*\)
PyLoops(lines) ==
    NumberMatches(lines, {"for i in range(", "for attempt in range("}, {"): pass", "):"}, 1)
PyRetryLoops(lines) ==
    LET ms == InOrder(PyLoops(lines))
        hit(m) ==
            /\ AnyKeyword(lines, m.start - RetryLoopSpan, m.end + RetryLoopSpan,
                          {"retry", "attempt", "error", "except"})
            /\ m.group > MaxAttempts
        hits == SelectSeq(ms, hit)
    IN  [i \in DOMAIN hits |->
            Finding(hits[i].line, "retries", "error",
                    "Too many retry attempts (" \o str(hits[i].group) \o ")")]

\* Linear backoff: time\.sleep\s*\(\s*(\d+)\s*\)
PyLinearSleep(lines) ==
    LET ms == InOrder(TokenMatches(lines, "time.sleep(1)"))
        hit(m) == AnyKeyword(lines, m.start - SleepSpanBefore, m.end + SleepSpanAfter,
                             {"retry", "attempt", "ratelimiterror"})
        hits == SelectSeq(ms, hit)
    IN  [i \in DOMAIN hits |->
            Finding(hits[i].line, "retries", "warning", "Linear backoff instead of exponential")]

\* Missing idempotency keys: once for the file, at the first line with 'create('.
PyIdempotency(lines) ==
    IF /\ ContentHas(lines, "chat.completions.create") \/ ContentHas(lines, "completions.create")
       /\ ~ContentHasLower(lines, "idempotency") /\ ~ContentHasLower(lines, "idempotency-key")
       /\ FirstLine(lines, "create(") # 0
    THEN <<Finding(FirstLine(lines, "create("), "traceability", "warning",
                   "Missing idempotency key")>>
    ELSE <<>>

\* Large prompts: ["\'].*?["\'].*?\*\s*(\d+)
PyLargePrompt(lines) ==
    LET ms == InOrder(NumberMatches(lines, {"\"x\" * "}, {}, 0))
        hit(m) ==
            /\ m.group > PromptMultiplier
            /\ \/ SpanHas(lines, m.start, m.end + PromptSpan, "create(")
               \/ SpanHas(lines, m.start, m.end + PromptSpan, "messages")
        hits == SelectSeq(ms, hit)
    IN  [i \in DOMAIN hits |->
            Finding(hits[i].line, "cost", "warning",
                    "Large prompt generation (x" \o str(hits[i].group) \o ")")]

\* Expensive models without cost estimation, for each model of the list in turn.
ExpensiveModels == <<"gpt-4", "claude-opus", "claude-3-opus">>
Quoted(model) == {"\"" \o model \o "\"", "'" \o model \o "'"}
ExpensiveModel(lines, model) ==
    IF /\ \E q \in Quoted(model) : ContentHas(lines, q)
       /\ FirstLine(lines, model) # 0
       /\ ~ContentHasLower(lines, "cost") /\ ~ContentHasLower(lines, "price")
    THEN <<Finding(FirstLine(lines, model), "cost", "warning",
                   "Using expensive model (" \o model \o ") without cost estimation")>>
    ELSE <<>>
ExpensiveModelFindings(lines) ==
    ExpensiveModel(lines, ExpensiveModels[1]) \o ExpensiveModel(lines, ExpensiveModels[2])
        \o ExpensiveModel(lines, ExpensiveModels[3])

\* Missing request ID tracking: once for the file, at the first line with 'create('.
PyRequestId(lines) ==
    IF /\ ContentHasLower(lines, "request") /\ ContentHas(lines, "create(")
       /\ ~ContentHasLower(lines, "request-id") /\ ~ContentHasLower(lines, "request_id")
       /\ FirstLine(lines, "create(") # 0
    THEN <<Finding(FirstLine(lines, "create("), "traceability", "info",
                   "No request ID tracking")>>
    ELSE <<>>

_analyze_python_patterns(lines) ==
    PyRetryLoops(lines) \o PyLinearSleep(lines) \o PyIdempotency(lines) \o PyLargePrompt(lines)
        \o ExpensiveModelFindings(lines) \o PyRequestId(lines)

\* API calls: \.chat\.completions\.create\s*\(  with the 500 characters after it.
RECURSIVE JsCallFindings(_, _)
JsCallFindings(lines, ms) ==
    IF ms = <<>> THEN <<>>
    ELSE LET m == Head(ms)
             has(pat) == SpanHas(lines, m.start, m.end + CallSpan, pat)
         IN  (IF ~has("max_tokens") /\ ~has("maxTokens")
              THEN <<Finding(m.line, "cost", "warning", "Missing max_tokens parameter")>>
              ELSE <<>>)
          \o (IF ~has("timeout")
              THEN <<Finding(m.line, "streaming", "warning", "Missing timeout parameter")>>
              ELSE <<>>)
          \o JsCallFindings(lines, Tail(ms))
JsCalls(lines) == JsCallFindings(lines, InOrder(TokenMatches(lines, ".chat.completions.create(")))

\* Retry loops: for\s*\(\s*let\s+\w+\s*=\s*0\s*;\s*\w+\s*<\s*(\d+)
JsLoops(lines) == NumberMatches(lines, {"for (let i = 0; i < "}, {}, 0)
JsRetryLoops(lines) ==
    LET ms == InOrder(JsLoops(lines))
        hit(m) ==
            /\ AnyKeyword(lines, m.start - RetryLoopSpan, m.end + RetryLoopSpan,
                          {"retry", "attempt", "error", "catch"})
            /\ m.group > MaxAttempts
        hits == SelectSeq(ms, hit)
    IN  [i \in DOMAIN hits |->
            Finding(hits[i].line, "retries", "error",
                    "Too many retry attempts (" \o str(hits[i].group) \o ")")]

\* Linear backoff: setTimeout\s*\([^,]+,\s*(\d+)\s*\)
JsSetTimeout(lines) ==
    LET ms == InOrder(NumberMatches(lines, {"setTimeout(f, "}, {")"}, 1))
        hit(m) == AnyKeyword(lines, m.start - SleepSpanBefore, m.end + SleepSpanAfter,
                             {"retry", "attempt", "ratelimit"})
        hits == SelectSeq(ms, hit)
    IN  [i \in DOMAIN hits |->
            Finding(hits[i].line, "retries", "warning", "Linear backoff instead of exponential")]

\* Missing idempotency: once for the file, at the first line with '.create('.
JsIdempotency(lines) ==
    IF /\ ContentHas(lines, "completions.create")
       /\ ~ContentHasLower(lines, "idempotency")
       /\ FirstLine(lines, ".create(") # 0
    THEN <<Finding(FirstLine(lines, ".create("), "traceability", "warning",
                   "Missing idempotency key")>>
    ELSE <<>>

\* Stream without error handling: once for the file, at the first line that has
\* 'stream' and 'true'.
JsStream(lines) ==
    LET ps == {p \in DOMAIN lines : Has(lines[p], "stream") /\ Has(lines[p], "true")}
    IN  IF /\ ContentHas(lines, "stream: true") \/ ContentHas(lines, "stream:true")
           /\ ~ContentHasLower(lines, "catch") /\ ~ContentHasLower(lines, "error")
           /\ ps # {}
        THEN <<Finding(CHOOSE p \in ps : \A q \in ps : p <= q, "streaming", "warning",
                       "Streaming without error handling")>>
        ELSE <<>>

_analyze_javascript_patterns(lines) ==
    JsCalls(lines) \o JsRetryLoops(lines) \o JsSetTimeout(lines) \o JsIdempotency(lines)
        \o ExpensiveModelFindings(lines) \o JsStream(lines)

\* ------------------------------------------------------- CodeScanner.scan
\* _analyze_python_ast: the findings of the calls up to and including the first
\* whose check raises, and whether one raised.
RECURSIVE AstFindings(_)
AstFindings(cs) ==
    IF cs = <<>> THEN <<>>
    ELSE IF CallRaises(Head(cs)) THEN CallFindings(Head(cs))
    ELSE CallFindings(Head(cs)) \o AstFindings(Tail(cs))
AstRaises(cs) == \E i \in DOMAIN cs : CallRaises(cs[i])

\* str.strip() of a line: the whitespace at its two ends removed.
Blank(tok) == tok.s = "    "
RECURSIVE lstrip(_)
lstrip(line) == IF line # <<>> /\ Blank(Head(line)) THEN lstrip(Tail(line)) ELSE line
strip(line) == Reverse(lstrip(Reverse(lstrip(line))))

\* Mutant of Snippet: the line as it stands in the file, not stripped.
Snippet_Unstripped(lines, line_num) ==
    IF line_num <= Len(lines) THEN lines[line_num] ELSE <<>>

\* 'code_snippet': lines[line_num - 1].strip() if line_num <= len(lines) else ''
Snippet(lines, line_num) ==
    IF line_num <= Len(lines) THEN strip(lines[line_num]) ELSE <<>>

\* 'file': str(file_path.relative_to(self.directory)) and 'code_snippet' in every
\* finding of a file, whose content.split('\n') is lines.
InFile(path, lines, fs) ==
    [i \in DOMAIN fs |->
        [file |-> path, line |-> fs[i].line, category |-> fs[i].category,
         severity |-> fs[i].severity, issue |-> fs[i].issue,
         code_snippet |-> Snippet(lines, fs[i].line)]]

\* What a file's scan did: whether the file was read, how the structural pass ended
\* ("ok", "SyntaxError", "raised", or "-" when there was none), whether the
\* text-pattern pass ran, and the findings appended.
Outcome(path, opened, ast, patterns, fs) ==
    [path |-> path, opened |-> opened, ast |-> ast, patterns |-> patterns, findings |-> fs]

\* Mutant of _scan_python_file: no handler for SyntaxError around the parse, so that
\* the outer handler ends the file's scan.
_scan_python_file_NoSyntaxErrorHandler(e) ==
    IF ~(e.isfile /\ e.readable) THEN Outcome(e.path, FALSE, "-", FALSE, <<>>)
    ELSE IF SyntaxError(e.src) THEN Outcome(e.path, TRUE, "SyntaxError", FALSE, <<>>)
    ELSE IF AstRaises(SrcCalls(e.src))
         THEN Outcome(e.path, TRUE, "raised", FALSE, InFile(e.path, SrcLines(e.src), AstFindings(SrcCalls(e.src))))
         ELSE Outcome(e.path, TRUE, "ok", TRUE,
                      InFile(e.path, SrcLines(e.src), AstFindings(SrcCalls(e.src))
                                         \o _analyze_python_patterns(SrcLines(e.src))))

\* _scan_python_file: open and read; parse and walk the tree unless the parse raises
\* SyntaxError; then the pattern-based analysis; any other exception, from open()
\* onwards, ends the file's scan.
_scan_python_file(e) ==
    IF ~(e.isfile /\ e.readable) THEN Outcome(e.path, FALSE, "-", FALSE, <<>>)
    ELSE IF SyntaxError(e.src)
         THEN Outcome(e.path, TRUE, "SyntaxError", TRUE,
                      InFile(e.path, SrcLines(e.src), _analyze_python_patterns(SrcLines(e.src))))
    ELSE IF AstRaises(SrcCalls(e.src))
         THEN Outcome(e.path, TRUE, "raised", FALSE, InFile(e.path, SrcLines(e.src), AstFindings(SrcCalls(e.src))))
         ELSE Outcome(e.path, TRUE, "ok", TRUE,
                      InFile(e.path, SrcLines(e.src), AstFindings(SrcCalls(e.src))
                                         \o _analyze_python_patterns(SrcLines(e.src))))

\* _scan_javascript_file: open and read, then the pattern-based analysis.
_scan_javascript_file(e) ==
    IF ~(e.isfile /\ e.readable) THEN Outcome(e.path, FALSE, "-", FALSE, <<>>)
    ELSE Outcome(e.path, TRUE, "-", TRUE,
                 InFile(e.path, SrcLines(e.src), _analyze_javascript_patterns(SrcLines(e.src))))

\* self.directory.glob('**/*.py') and glob('**/*.js'): every entry below the root
\* with that suffix, whatever the directories on its path.
Glob(suffix) == SelectSeq([i \in DOMAIN tree |-> i], LAMBDA i : Suffix(Name(tree[i])) = suffix)
python_files == Glob(".py")
js_files == Glob(".js")

\* scan(): the two lists are made; self.findings is left as it is.
ScanCall ==
    /\ spc \in {"new", "returned"}
    /\ Len(returned) < MaxScans
    /\ listed' = python_files \o js_files
    /\ fpos' = 1
    /\ scanlog' = <<>>
    /\ spc' = "files"
    /\ UNCHANGED <<calls, cpos, findings, root, tree, returned, found>>
    /\ UNCHANGED checkVars
    /\ UNCHANGED fixerVars

\* scan_codebase(directory): scanner = CodeScanner(directory), then scanner.scan().
ScanCodebase ==
    /\ spc \in {"new", "returned"}
    /\ Len(returned) < MaxScans
    /\ findings' = <<>>
    /\ listed' = python_files \o js_files
    /\ fpos' = 1
    /\ scanlog' = <<>>
    /\ spc' = "files"
    /\ UNCHANGED <<calls, cpos, root, tree, returned, found>>
    /\ UNCHANGED checkVars
    /\ UNCHANGED fixerVars

CurEntry == tree[listed[fpos]]
\* Mutant of Scanned: one finding is kept for a line of a file, the first.
Scanned_OnePerLine(o) ==
    /\ findings' =
          LET all == findings \o o.findings
              first(k) == \A j \in 1..(k - 1) :
                             all[j].file # all[k].file \/ all[j].line # all[k].line
              keep == {k \in DOMAIN all : first(k)}
              RECURSIVE pick(_)
              pick(k) == IF k > Len(all) THEN <<>>
                         ELSE (IF k \in keep THEN <<all[k]>> ELSE <<>>) \o pick(k + 1)
          IN  pick(1)
    /\ scanlog' = Append(scanlog, o)
    /\ fpos' = fpos + 1
    /\ UNCHANGED <<calls, cpos, spc, root, tree, listed, returned, found>>
    /\ UNCHANGED checkVars
    /\ UNCHANGED fixerVars

\* self.findings.append(...) by the rules of one file's scan, in the order they fire.
Scanned(o) ==
    /\ findings' = findings \o o.findings
    /\ scanlog' = Append(scanlog, o)
    /\ fpos' = fpos + 1
    /\ UNCHANGED <<calls, cpos, spc, root, tree, listed, returned, found>>
    /\ UNCHANGED checkVars
    /\ UNCHANGED fixerVars

\* for file_path in python_files: self._scan_python_file(file_path)
ScanPythonFile ==
    /\ spc = "files" /\ fpos <= Len(python_files)
    /\ Scanned(_scan_python_file(CurEntry))

\* for file_path in js_files: self._scan_javascript_file(file_path)
ScanJavascriptFile ==
    /\ spc = "files" /\ fpos > Len(python_files) /\ fpos <= Len(listed)
    /\ Scanned(_scan_javascript_file(CurEntry))

\* The dict scan() returns; its 'findings' is self.findings itself, here as it
\* stands when scan() returns.
ScanResult ==
    [total_files |-> Len(python_files) + Len(js_files),
     python_files |-> Len(python_files),
     js_files |-> Len(js_files),
     total_findings |-> Len(findings),
     findings |-> findings]
ScanReturn ==
    /\ spc = "files" /\ fpos > Len(listed)
    /\ returned' = Append(returned, ScanResult)
    /\ spc' = "returned"
    /\ UNCHANGED <<calls, cpos, findings, root, tree, listed, fpos, scanlog, found>>
    /\ UNCHANGED checkVars
    /\ UNCHANGED fixerVars

\* The tree: one file whose content varies, a.py or c.js, and the file b.py, which
\* holds an eleven-round retry loop and lies at the root, in a hidden directory or in
\* node_modules; either may be unreadable.
FixedSrc == <<"loop11", "retry">>
\* A file with every issue: a completion call with model="gpt-4" and stream=True, no
\* max_tokens and no timeout, in a 15-round retry loop with a constant sleep.
AllIssuesSrc == <<"for15", "in_create", "in_sleep">>
FixedPaths == {<<"b.py">>, <<".git", "b.py">>, <<"node_modules", "b.py">>}
TreeInit ==
    /\ FixerIdle
    /\ ChecksIdle /\ PromptIdle
    /\ calls = <<>> /\ cpos = 1
    /\ findings = <<>>
    /\ spc = "new"
    /\ root = <<"proj">>
    /\ \E n \in 0..MaxScanLen : \E lang \in {"py", "js"} :
         \E src \in [1..n -> IF lang = "py" THEN PyKinds ELSE JsKinds]
                        \cup (IF lang = "py" /\ n = 0 THEN {AllIssuesSrc} ELSE {}) :
           \E r1, r2 \in BOOLEAN : \E fp \in FixedPaths :
             tree = <<TreeEntry(IF lang = "py" THEN <<"a.py">> ELSE <<"c.js">>, TRUE, r1, src),
                      TreeEntry(fp, TRUE, r2, FixedSrc)>>
    /\ listed = <<>>
    /\ fpos = 1
    /\ scanlog = <<>>
    /\ returned = <<>>
    /\ found = <<>>

TreeNext ==
    \/ ScanCall
    \/ ScanCodebase
    \/ ScanPythonFile
    \/ ScanJavascriptFile
    \/ ScanReturn

TreeSpec == TreeInit /\ [][TreeNext]_vars

\* ------------------------------------------------- CodeFixer._find_source_files
\* What may lie below the root, in the order rglob('*') yields it.
Below ==
    <<TreeEntry(<<"a.py">>, TRUE, TRUE, <<>>),
      TreeEntry(<<"sub">>, FALSE, TRUE, <<>>),
      TreeEntry(<<"sub", "d.ts">>, TRUE, TRUE, <<>>),
      TreeEntry(<<"sub", "e.txt">>, TRUE, TRUE, <<>>),
      TreeEntry(<<"sub", "g.jsx">>, TRUE, TRUE, <<>>),
      TreeEntry(<<".git">>, FALSE, TRUE, <<>>),
      TreeEntry(<<".git", "b.py">>, TRUE, TRUE, <<>>),
      TreeEntry(<<"node_modules">>, FALSE, TRUE, <<>>),
      TreeEntry(<<"node_modules", "c.js">>, TRUE, TRUE, <<>>),
      TreeEntry(<<".f.py">>, TRUE, TRUE, <<>>),
      TreeEntry(<<"lib.py">>, FALSE, TRUE, <<>>),
      TreeEntry(<<"h.tsx">>, TRUE, TRUE, <<>>),
      TreeEntry(<<"node_modules.py">>, TRUE, TRUE, <<>>)>>
\* The directory of an entry is in the tree with it.
Closed(S) ==
    \A i \in S : Len(Below[i].path) > 1 =>
        \E j \in S : Below[j].path = SubSeq(Below[i].path, 1, Len(Below[i].path) - 1)
\* Path(dir_path).parts for the directories the walk may start from: a relative
\* one, the current directory, absolute ones, and one reached through '..'.
Roots ==
    {<<"proj">>,
     <<>>,
     <<"/", "home", "proj">>,
     <<"/", "home", ".cache", "proj">>,
     <<"/", "srv", "node_modules", "proj">>,
     <<"..", "proj">>}
SourceSuffixes == {".js", ".ts", ".jsx", ".tsx", ".py"}
\* item.parts of an entry: the parts of the root, then those below it.
Parts(e) == root \o e.path
Skipped(e) == \E i \in DOMAIN Parts(e) : StartsWithDot(Parts(e)[i]) \/ Parts(e)[i] = "node_modules"
_find_source_files ==
    LET keep == SelectSeq(tree, LAMBDA e :
                    ~Skipped(e) /\ e.isfile /\ Suffix(Name(e)) \in SourceSuffixes)
    IN  [i \in DOMAIN keep |-> Parts(keep[i])]
FindSourceFiles ==
    /\ spc = "new"
    /\ found' = _find_source_files
    /\ spc' = "returned"
    /\ UNCHANGED <<calls, cpos, findings, root, tree, listed, fpos, scanlog, returned>>
    /\ UNCHANGED checkVars
    /\ UNCHANGED fixerVars

FindInit ==
    /\ FixerIdle
    /\ ChecksIdle /\ PromptIdle
    /\ calls = <<>> /\ cpos = 1
    /\ findings = <<>>
    /\ spc = "new"
    /\ root \in Roots
    /\ \E S \in SUBSET DOMAIN Below :
         /\ Closed(S)
         /\ tree = SelectSeq(Below, LAMBDA e : \E i \in S : Below[i] = e)
    /\ listed = <<>>
    /\ fpos = 1
    /\ scanlog = <<>>
    /\ returned = <<>>
    /\ found = <<>>
FindNext == FindSourceFiles

FindSpec == FindInit /\ [][FindNext]_vars

\* ------------------------------------------------------------------ checks
\* A finding of a check, and what a check returns.  Times are whole seconds.
CheckFinding(severity, message) == [severity |-> severity, message |-> message]
CheckResult(status, fs, metrics) == [status |-> status, findings |-> fs, metrics |-> metrics]
HighTtfb == 5
StallGap == 30
SlowGap == 10
LowRemaining == 10
Absent == "absent"

\* streaming.check: r is what the streamed request did: it raised (raises names the
\* exception) or delivered chunks; ttfb = 0 stands for no chunk (ttfb is None).
streaming_check(r) ==
    IF r.raises = "TimeoutException"
    THEN CheckResult("fail", <<CheckFinding("error", "Streaming timeout")>>, <<>>)
    ELSE IF r.raises = "HTTPStatusError"
    THEN CheckResult("fail", <<CheckFinding("error", "HTTP error")>>, <<>>)
    ELSE IF r.raises = "Exception"
    THEN CheckResult("fail", <<CheckFinding("error", "Streaming check failed")>>, <<>>)
    ELSE LET slow == IF r.ttfb # 0 /\ r.ttfb > HighTtfb
                     THEN <<CheckFinding("warning", "High TTFB")>> ELSE <<>>
             gap  == IF r.max_chunk_gap > StallGap
                     THEN <<CheckFinding("error", "Large chunk gap")>>
                     ELSE IF r.max_chunk_gap > SlowGap
                     THEN <<CheckFinding("warning", "Chunk gap")>>
                     ELSE <<>>
             fs   == slow \o gap
             status == IF fs = <<>> THEN "pass"
                       ELSE IF \E i \in DOMAIN fs : fs[i].severity = "error" THEN "fail"
                       ELSE "warn"
         IN  CheckResult(status, fs,
                         <<<<"ttfb_ms", r.ttfb * 1000>>, <<"max_chunk_gap_s", r.max_chunk_gap>>>>)

\* retries.check: r is what httpx.post did: it raised, or returned a response with
\* the headers retry_after and remaining (Absent when the header is missing).
\* int(remaining) raises ValueError on a value that is no number; the findings made
\* before it stay in the list.  httpx.post raises no HTTPStatusError (the check never
\* calls raise_for_status), so the handler of lines 68-81 is not reached.
IsInt(s) == s \in {"1", "9", "10", "11", "1000"}
Recommendations(messages) == [i \in DOMAIN messages |-> CheckFinding("info", messages[i])]
retries_check(r) ==
    IF r.raises
    THEN CheckResult("fail", <<CheckFinding("error", "Retry check failed")>>, <<>>)
    ELSE LET after == IF r.retry_after # Absent
                      THEN <<CheckFinding("info", "Retry-After header present")>> ELSE <<>>
             m1    == IF r.retry_after # Absent
                      THEN <<<<"retry_after_s", r.retry_after>>>> ELSE <<>>
             m2    == IF r.remaining # Absent
                      THEN <<<<"ratelimit_remaining", r.remaining>>>> ELSE <<>>
         IN  IF r.remaining # Absent /\ ~IsInt(r.remaining)
             THEN CheckResult("fail",
                              after \o <<CheckFinding("error", "Retry check failed")>>,
                              m1 \o m2)
             ELSE LET low == IF r.remaining # Absent /\ int(r.remaining) < LowRemaining
                             THEN <<CheckFinding("warning", "Low rate limit remaining")>>
                             ELSE <<>>
                  IN  CheckResult("pass",
                                  after \o low \o
                                  Recommendations(<<"Recommended: Use exponential backoff",
                                                    "Never retry after stream has started",
                                                    "Set retry cap">>),
                                  m1 \o m2)

\* cost.check: asks nothing of the endpoint; config.model is unset, and the prices of
\* the default model are in cents per million tokens.
cost_check ==
    CheckResult("warn",
                Recommendations(<<"Model pricing", "Set max_tokens cap",
                                  "Monitor for tool/function call loops",
                                  "Consider implementing token budgets">>)
                \o <<CheckFinding("warning", "No prompt size validation detected")>>,
                <<<<"input_price_per_1m", 50>>, <<"output_price_per_1m", 150>>>>)

\* trace.check: r is what the request did: it raised (httpx.post or
\* raise_for_status), or its response carried a provider request id or none.
trace_check(r) ==
    IF r.raises
    THEN CheckResult("fail", <<CheckFinding("error", "Trace check failed")>>, <<>>)
    ELSE CheckResult("pass",
                     (IF r.provider_request_id # Absent
                      THEN <<CheckFinding("info", "Provider request ID found")>>
                      ELSE <<CheckFinding("warning", "No provider request ID found")>>)
                     \o Recommendations(<<"Generated request hash",
                                          "Always include X-Request-ID header",
                                          "Log request hashes",
                                          "Capture provider request IDs">>),
                     (IF r.provider_request_id # Absent
                      THEN <<<<"provider_request_id", r.provider_request_id>>>> ELSE <<>>)
                     \o <<<<"request_hash", "hash">>>>)

\* run_checks(target, config, provider): one action for the call, one per check the
\* for loop runs; results holds the checks run so far, in order.
Targets == {"streaming", "retries", "cost", "trace", "prod", "all"}
RunChecks ==
    /\ targets = <<>>
    /\ \E target \in Targets :
         targets' = IF target = "all" \/ target = "prod"
                    THEN <<"streaming", "retries", "cost", "trace">>
                    ELSE <<target>>
    /\ results' = <<>>
    /\ UNCHANGED <<prompt, calls, cpos, findings, spc>>
    /\ UNCHANGED treeVars
    /\ UNCHANGED fixerVars
NextTarget == IF Len(results) < Len(targets) THEN targets[Len(results) + 1] ELSE "none"
Ran(t, r) ==
    /\ results' = Append(results, [name |-> t, result |-> r])
    /\ UNCHANGED <<targets, prompt, calls, cpos, findings, spc>>
    /\ UNCHANGED treeVars
    /\ UNCHANGED fixerVars
CheckStreaming ==
    /\ NextTarget = "streaming"
    /\ \E raises \in {"no", "TimeoutException", "HTTPStatusError", "Exception"} :
       \E ttfb \in {0, 1, 5, 6} : \E gap \in {0, 10, 11, 30, 31} :
         /\ raises # "no" => ttfb = 0 /\ gap = 0
         /\ ttfb = 0 => gap = 0
         /\ Ran("streaming", streaming_check([raises |-> raises, ttfb |-> ttfb,
                                              max_chunk_gap |-> gap]))
CheckRetries ==
    /\ NextTarget = "retries"
    /\ \E raises \in BOOLEAN : \E after \in {Absent, "1"} :
       \E remaining \in {Absent, "9", "10", "1000", "soon"} :
         /\ raises => after = Absent /\ remaining = Absent
         /\ Ran("retries", retries_check([raises |-> raises, retry_after |-> after,
                                          remaining |-> remaining]))
CheckCost ==
    /\ NextTarget = "cost"
    /\ Ran("cost", cost_check)
CheckTrace ==
    /\ NextTarget = "trace"
    /\ \E raises \in BOOLEAN : \E id \in {Absent, "req-1"} :
         /\ raises => id = Absent
         /\ Ran("trace", trace_check([raises |-> raises, provider_request_id |-> id]))

CheckInit ==
    /\ FixerIdle
    /\ ScannerIdle
    /\ PromptIdle
CheckNext ==
    \/ RunChecks
    \/ CheckStreaming
    \/ CheckRetries
    \/ CheckCost
    \/ CheckTrace

CheckSpec == CheckInit /\ [][CheckNext]_vars

\* ------------------------------------------------------- cli.should_prompt
\* What a call does: it returns a value, or it echoes lines and exits with a status.
Returns(v) == [how |-> "return", value |-> v, echoed |-> <<>>, status |-> 0]
Exits(status, echoed) == [how |-> "exit", value |-> FALSE, echoed |-> echoed, status |-> status]
UsageError == 2
NotATty ==
    <<"Error: Interactive mode (-i) requested but not running in a TTY",
      "   Run without -i for non-interactive mode, or run in a terminal">>
SaveKeyNeedsForce ==
    <<"Error: --save-key requires --force flag",
      "   Example: ai-patch doctor --save-key --force">>

\* should_prompt(interactive_flag, ci_flag), with what sys.stdin.isatty() and
\* sys.stdout.isatty() give.
should_prompt(interactive_flag, ci_flag, stdin_isatty, stdout_isatty) ==
    LET is_tty == stdin_isatty /\ stdout_isatty
    IN  IF ci_flag THEN Returns(FALSE)
        ELSE IF interactive_flag
             THEN IF ~is_tty THEN Exits(UsageError, NotATty) ELSE Returns(TRUE)
             ELSE Returns(FALSE)

\* The doctor command is invoked with its flags, on a terminal or not.
Doctor(interactive_flag, ci, save_key, force, stdin_isatty, stdout_isatty) ==
    [at |-> "doctor", interactive_flag |-> interactive_flag, ci |-> ci, save_key |-> save_key,
     force |-> force, stdin_isatty |-> stdin_isatty, stdout_isatty |-> stdout_isatty,
     can_prompt |-> FALSE, echoed |-> <<>>, status |-> 0]

\* doctor: can_prompt = should_prompt(interactive_flag, ci); sys.exit ends the process.
ShouldPrompt ==
    /\ prompt.at = "doctor"
    /\ LET r == should_prompt(prompt.interactive_flag, prompt.ci,
                              prompt.stdin_isatty, prompt.stdout_isatty)
       IN  prompt' = [prompt EXCEPT !.at = IF r.how = "exit" THEN "exited" ELSE "prompted",
                                    !.can_prompt = r.value,
                                    !.echoed = r.echoed,
                                    !.status = r.status]
    /\ UNCHANGED <<targets, results>>
    /\ UNCHANGED <<calls, cpos, findings, spc>>
    /\ UNCHANGED treeVars
    /\ UNCHANGED fixerVars

\* doctor: --save-key without --force echoes an error and exits with status 2.
SaveKeyWithoutForce ==
    /\ prompt.at = "prompted"
    /\ prompt.save_key /\ ~prompt.force
    /\ prompt' = [prompt EXCEPT !.at = "exited",
                                !.echoed = prompt.echoed \o SaveKeyNeedsForce,
                                !.status = UsageError]
    /\ UNCHANGED <<targets, results>>
    /\ UNCHANGED <<calls, cpos, findings, spc>>
    /\ UNCHANGED treeVars
    /\ UNCHANGED fixerVars

\* doctor: the welcome message, in interactive mode only.
Welcome ==
    /\ prompt.at = "prompted"
    /\ ~(prompt.save_key /\ ~prompt.force)
    /\ prompt' = [prompt EXCEPT !.at = "welcomed",
                                !.echoed = IF prompt.can_prompt
                                           THEN Append(prompt.echoed,
                                                       "AI Patch Doctor - Interactive Mode\n")
                                           ELSE prompt.echoed]
    /\ UNCHANGED <<targets, results>>
    /\ UNCHANGED <<calls, cpos, findings, spc>>
    /\ UNCHANGED treeVars
    /\ UNCHANGED fixerVars

PromptInit ==
    /\ FixerIdle
    /\ ScannerIdle
    /\ \E interactive_flag, ci, save_key, force, stdin_isatty, stdout_isatty \in BOOLEAN :
         prompt = Doctor(interactive_flag, ci, save_key, force, stdin_isatty, stdout_isatty)
PromptNext ==
    \/ ShouldPrompt
    \/ SaveKeyWithoutForce
    \/ Welcome

PromptSpec == PromptInit /\ [][PromptNext]_vars

\* ================================================================ claims
Range(s) == {s[i] : i \in DOMAIN s}
SeqToBag(s) == [x \in Range(s) |-> Cardinality({i \in DOMAIN s : s[i] = x})]
ErrorFixes == [i \in DOMAIN result.errors |-> result.errors[i].fix]
ApplyMode == ~dry_run
Applying == pc \in {"loop", "edit", "write"}

\* C1: with dry_run set, apply_fixes changes no file's content, and the result it
\* returns has skipped equal to the input list, in order, and applied and errors empty.
C1_DryRunTouchesNothing ==
    /\ (dry_run /\ (Applying \/ pc = "done")) => disk = disk0 /\ log = <<>>
    /\ (dry_run /\ pc = "done") =>
          /\ result.skipped = input
          /\ result.applied = <<>>
          /\ result.errors = <<>>

\* A dry run has returned for a list of two different fixes, one of which names a
\* file that cannot be read.
C1_Witness ==
    /\ dry_run /\ pc = "done"
    /\ Len(input) >= 2 /\ input[1] # input[2]
    /\ \E i \in DOMAIN input : ~Readable(input[i].file)

\* C4: when apply_fixes has returned, in either mode, every element of the input is in
\* exactly one of applied, skipped and errors: the three together hold the input's
\* fixes, each as often as the input does, and their lengths add up to the input's.
C4_Partition ==
    pc = "done" =>
        /\ Len(result.applied) + Len(result.skipped) + Len(result.errors) = Len(input)
        /\ SeqToBag(result.applied) (+) SeqToBag(result.skipped) (+) SeqToBag(ErrorFixes)
              = SeqToBag(input)

\* An apply-mode call has returned with one fix applied and another in errors.
C4_Witness ==
    /\ pc = "done" /\ ApplyMode
    /\ result.applied # <<>> /\ result.errors # <<>>

\* The exception _apply_fix raises for the fix at position i of the input, given the
\* content the file had then; "" if it raises none.
Raised(i, content) ==
    IF ~Readable(input[i].file) THEN "Permission denied"
    ELSE IF EditRaises(ReadLines(content), input[i]) THEN "list assignment index out of range"
    ELSE IF ~Writable(input[i].file) THEN "Permission denied"
    ELSE IF /\ input[i].type \in {"add", "modify"}
            /\ \E t \in DOMAIN input[i].code : input[i].code[t].s = Surrogate
         THEN "'utf-8' codec can't encode character: surrogates not allowed"
    ELSE ""
\* The log's entries that begin an attempt, and those that end one in an exception.
Attempts == SelectSeq(log, LAMBDA e : e.op \in {"read", "open_failed"})
Failures ==
    SelectSeq(log, LAMBDA e : e.op \in {"open_failed", "edit_failed", "write_failed", "write_raised"})

\* C5: in apply mode a fix whose application raises is recorded in errors with the
\* cause, the fixes after it are still attempted, and apply_fixes returns normally:
\* the call never ends in an exception, it can always take a step until it has
\* returned, and on return every input fix has been attempted once, in order, and
\* errors holds exactly the fixes that raised, each with what it raised.
C5_ErrorsDoNotAbort ==
    /\ pc # "raised"
    /\ (ApplyMode /\ Applying) =>
          ENABLED (ReadOK \/ ReadFail \/ EditOK \/ EditFail \/ WriteOK \/ WriteFail
                       \/ WriteRaises \/ Return)
    /\ (ApplyMode /\ pc = "done") =>
          /\ [k \in DOMAIN Attempts |-> Attempts[k].i] = [k \in DOMAIN input |-> k]
          /\ result.errors =
                [k \in DOMAIN Failures |->
                    ErrorEntry(input[Failures[k].i],
                               Raised(Failures[k].i, Attempts[Failures[k].i].content))]
          /\ \A k \in DOMAIN Attempts :
                (Raised(k, Attempts[k].content) # "") = (\E q \in DOMAIN Failures : Failures[q].i = k)

\* An apply-mode call has returned after a fix raised and a later fix was applied.
C5_Witness ==
    /\ pc = "done" /\ ApplyMode
    /\ \E p, q \in DOMAIN log : p < q /\ log[p].op = "edit_failed" /\ log[q].op = "write"

\* The log's entries that are writes, with the fix, the content read and the content
\* written: a write entry directly follows the read entry of the same fix.
Writes == {p \in DOMAIN log : log[p].op = "write"}
FixAt(p) == input[log[p].i]
Before(p) == log[p - 1].content
After(p) == log[p].content
\* The entries at which the file got new content: a write, or a write that broke off.
Stores == {p \in DOMAIN log : log[p].op \in {"write", "write_raised"}}
\* The file holds what write p left, unless a later write has replaced it.
OnDisk(p) ==
    (\A q \in Stores : log[q].file = log[p].file => q <= p) => disk[log[p].file] = After(p)

\* C2 (as claimed): fixes of one file are written in descending line order: of two
\* fixes naming lines of the same file, the one with the larger line number is
\* written before the one with the smaller.
C2_DescendingLineOrder ==
    \A p, q \in Writes :
        (/\ log[p].file = log[q].file
         /\ FixAt(p).line \in 1..NumLines(disk0[log[p].file])
         /\ FixAt(q).line \in 1..NumLines(disk0[log[q].file])
         /\ FixAt(p).line > FixAt(q).line)
        => p < q

\* What scan_for_fixes returned has been applied, in apply mode and without errors,
\* to a tree whose a.py ends in a newline.
ScannedListApplied ==
    /\ pc = "done" /\ ApplyMode
    /\ selfFixes # <<>> /\ input = selfFixes
    /\ result.errors = <<>>
    /\ disk0[FileA].nl
    /\ \A i \in DOMAIN input : input[i].file = FileA

\* C3 (as claimed): after apply_fixes has processed the list scan_for_fixes returned
\* for one file, every fix has acted on the line that stood at fix.line when the file
\* was scanned: a modify fix has replaced that original line (it is gone, and every
\* original line no modify fix names is still there), and the line of an add fix
\* stands directly before or after that original line.
C3_FixesActOnScannedLines ==
    ScannedListApplied =>
        LET orig == disk0[FileA].lines
            final == disk[FileA].lines
            modified == {input[i].line : i \in {j \in DOMAIN input : input[j].type = "modify"}}
        IN  /\ \A n \in DOMAIN orig : (orig[n] \in Range(final)) = (n \notin modified)
            /\ \A i \in DOMAIN input :
                  input[i].type = "add" =>
                      \E q \in DOMAIN final :
                          /\ final[q] = FixText(input[i])
                          /\ \/ q > 1 /\ final[q - 1] = orig[input[i].line]
                             \/ q < Len(final) /\ final[q + 1] = orig[input[i].line]

\* C6 (as claimed): applying, in apply mode, fixes of one file of which k are add
\* fixes and the others modify fixes (each carrying code, as every fix scan_for_fixes
\* proposes does) makes the file k lines longer, wherever the fixes fall.
C6_LineCountGrowsByAdds ==
    (/\ pc = "done" /\ ApplyMode
     /\ result.errors = <<>>
     /\ \A i \in DOMAIN input :
           input[i].file = FileA /\ input[i].type \in {"add", "modify"} /\ HasCode(input[i]))
    => NumLines(disk[FileA]) =
          NumLines(disk0[FileA]) + Cardinality({i \in DOMAIN input : input[i].type = "add"})

\* The applications of an add fix that carries code and names a line the file has.
AddsInRange ==
    {p \in Writes : /\ FixAt(p).type = "add" /\ HasCode(FixAt(p))
                    /\ FixAt(p).line \in 1..NumLines(Before(p))}
\* The line an applied fix writes: its code, then the annotation naming its issue.
Annotated(fix) == <<T("    ")>> \o fix.code \o <<T("  # AI Patch fix: "), T(fix.issue)>>

C8_ModifyInPlace ==
    \A p \in Writes :
        FixAt(p).type = "modify" =>
            LET n == FixAt(p).line
                b == Before(p).lines
                a == After(p).lines
            IN  /\ Len(a) = Len(b)
                /\ \A q \in DOMAIN b : q # n => a[q] = b[q]
                /\ IF HasCode(FixAt(p)) THEN n \in DOMAIN b /\ a[n] = Annotated(FixAt(p))
                   ELSE a = b
                /\ OnDisk(p)

\* A modify fix has been applied to the first of two or more lines.
C8_Witness ==
    \E p \in Writes :
        /\ FixAt(p).type = "modify" /\ HasCode(FixAt(p))
        /\ FixAt(p).line = 1 /\ NumLines(Before(p)) >= 2
        /\ After(p) # Before(p)

\* The content the file holds when log entry p is made: what the latest earlier write
\* to it left, or what it held when apply_fixes was called.
Held(p) ==
    LET earlier == {q \in Stores : q < p /\ log[q].file = log[p].file}
    IN  IF earlier = {} THEN disk0[log[p].file]
        ELSE log[CHOOSE q \in earlier : \A r \in earlier : r <= q].content

\* C9: the fixes of a file go through one writer, one after the other: a fix's
\* read-modify-write is over (written, or failed) before the next read begins, so no
\* two cycles overlap, and each fix reads what the write before it left in the file.
C9_SerializedWriter ==
    /\ \A p \in DOMAIN log :
          log[p].op = "read" =>
              /\ log[p].content = Held(p)
              /\ IF p = Len(log) THEN pc \in {"edit", "write"} /\ idx = log[p].i
                 ELSE /\ log[p + 1].i = log[p].i
                      /\ log[p + 1].op \in {"write", "edit_failed", "write_failed", "write_raised"}
    /\ \A p \in DOMAIN log :
          log[p].op \in {"write", "edit_failed", "write_failed", "write_raised"} =>
              p > 1 /\ log[p - 1].op = "read" /\ log[p - 1].i = log[p].i
    /\ \A f \in FileSet :
          LET last == {q \in Stores : log[q].file = f}
          IN  disk[f] = IF last = {} THEN disk0[f]
                        ELSE log[CHOOSE q \in last : \A r \in last : r <= q].content

\* A second fix has read a file after a first fix changed it.
C9_Witness ==
    \E p, q \in DOMAIN log :
        /\ p < q /\ log[p].op = "write" /\ log[q].op = "read"
        /\ log[p].file = log[q].file
        /\ log[p].content # disk0[log[p].file]

\* stream=True: the keyword's value is the literal True.
StreamIsTrue(node) ==
    "stream" \in DOMAIN node.keywords /\ node.keywords["stream"] = ConstExpr("True")

\* C10 (as claimed): for every in-scope call whose stream keyword is the literal True
\* and that has no timeout keyword, the scan emits a missing-timeout finding and a
\* streaming-without-timeout finding, both streaming warnings, at the call's line.
C10_StreamTrueWithoutTimeout ==
    \A i \in DOMAIN calls :
        (/\ i < cpos
         /\ InScope(calls[i]) /\ StreamIsTrue(calls[i])
         /\ "timeout" \notin DOMAIN calls[i].keywords)
        => /\ Finding(calls[i].lineno, "streaming", "warning", "Missing timeout parameter")
                \in Range(findings)
           /\ Finding(calls[i].lineno, "streaming", "warning", "Streaming enabled without timeout")
                \in Range(findings)

\* The entry of the tree with a path, its lines, and whether it is a Python file.
EntryOf(path) == tree[CHOOSE i \in DOMAIN tree : tree[i].path = path]
LinesOf(path) == SrcLines(EntryOf(path).src)
IsPython(path) == Suffix(path[Len(path)]) = ".py"
\* The loops with an integer literal bound in a file, and whether retry vocabulary
\* lies within the 200 characters before and after one.
BoundedLoops(path) == IF IsPython(path) THEN PyLoops(LinesOf(path)) ELSE JsLoops(LinesOf(path))
NearRetryVocabulary(path, m) ==
    \E k \in {"retry", "attempt", "error"} \cup (IF IsPython(path) THEN {"except"} ELSE {"catch"}) :
        SpanHasLower(LinesOf(path), m.start - 200, m.end + 200, k)
TooManyAttemptsAt(o, line) ==
    \E i \in DOMAIN o.findings :
        /\ o.findings[i].file = o.path /\ o.findings[i].line = line
        /\ o.findings[i].category = "retries" /\ o.findings[i].severity = "error"

\* C11 (as claimed): for every loop with an integer literal bound b in a file the scan
\* has read, with retry vocabulary in the 200 characters around it, the scan emits a
\* too-many-retry-attempts finding (retries, error) at the loop's line if and only if
\* b > 10.
C11_RetryBoundOverTen ==
    \A k \in DOMAIN scanlog :
        scanlog[k].opened =>
            \A m \in BoundedLoops(scanlog[k].path) :
                NearRetryVocabulary(scanlog[k].path, m) =>
                    (TooManyAttemptsAt(scanlog[k], m.line) <=> m.group > 10)

\* The calls _analyze_python_ast has checked, and whether the scan emitted a finding
\* at the line of one.
Checked == {i \in DOMAIN calls : i < cpos}
FindingAt(line) == \E k \in DOMAIN findings : findings[k].line = line
\* The resolved dotted name contains pat, compared case-insensitively.
NameContains(node, pat) ==
    \E i \in DOMAIN _get_call_name(node) : Sub(pat, Lower(_get_call_name(node)[i]))

\* C12 (as claimed): a call is in scope for the cost and streaming rules exactly when
\* its resolved dotted name contains "create" or "chat", each compared
\* case-insensitively: such a call without max_tokens gets the missing-max_tokens
\* finding at its line, and a call whose name contains neither gets no finding.
C12_InScopeCaseInsensitive ==
    \A i \in Checked :
        IF NameContains(calls[i], "create") \/ NameContains(calls[i], "chat")
        THEN "max_tokens" \notin DOMAIN calls[i].keywords =>
                Finding(calls[i].lineno, "cost", "warning", "Missing max_tokens parameter")
                    \in Range(findings)
        ELSE ~FindingAt(calls[i].lineno)

\* The files of the current scan on which the parse raised SyntaxError.
ParseFailures == {k \in DOMAIN scanlog : scanlog[k].ast = "SyntaxError"}
StructuralIssues ==
    {"Missing max_tokens parameter", "Missing timeout parameter",
     "Streaming enabled without timeout"}

\* C13: when a Python file fails to parse, the scan skips the structural analysis for
\* that file only.  The file gets no structural finding; the text-pattern rules are
\* evaluated on it (its findings are those of the text rules, and a loop of more than
\* ten rounds near retry vocabulary is reported); the files after it are scanned, each
\* listed file once and in order; and scan() goes through the whole list and returns a
\* result that counts every listed file.
C13_SyntaxErrorFallsBack ==
    /\ \A k \in ParseFailures :
          LET o == scanlog[k]
          IN  /\ o.patterns
              /\ \A i \in DOMAIN o.findings : o.findings[i].issue \notin StructuralIssues
              /\ o.findings = InFile(o.path, LinesOf(o.path),
                                   _analyze_python_patterns(LinesOf(o.path)))
              /\ \A m \in BoundedLoops(o.path) :
                    NearRetryVocabulary(o.path, m) =>
                        (TooManyAttemptsAt(o, m.line) <=> m.group > 10)
    /\ \A k \in DOMAIN scanlog : k < fpos /\ scanlog[k].path = tree[listed[k]].path
    /\ spc \in {"files", "returned"} => Len(scanlog) = fpos - 1
    /\ spc = "files" => fpos \in 1..(Len(listed) + 1)
    /\ spc = "returned" =>
          /\ Len(scanlog) = Len(listed)
          /\ returned[Len(returned)].total_files = Len(listed)

\* scan() has returned after a file that failed to parse got a text-pattern finding
\* and a file after it got a structural finding.
C13_Witness ==
    /\ spc = "returned"
    /\ \E k \in ParseFailures : \E j \in DOMAIN scanlog :
          /\ k < j
          /\ \E i \in DOMAIN scanlog[k].findings : scanlog[k].findings[i].category = "retries"
          /\ scanlog[j].ast = "ok" /\ scanlog[j].findings # <<>>

\* C14 (as claimed): the text-pattern rules are evaluated on every file the scan has
\* read, whatever the structural pass did on it: it succeeded, the parse failed, or
\* the inspection of a call's arguments raised.
C14_TextPassAlwaysRuns ==
    \A k \in DOMAIN scanlog : scanlog[k].opened => scanlog[k].patterns

\* C15 (as claimed): scans of the same unmodified tree return the same result,
\* whether through scan_codebase or through scan() on the same CodeScanner: every
\* result returned so far has the same findings, in the same order, and the same
\* counts.
C15_SecondScanEqualsFirst ==
    \A i, j \in DOMAIN returned : returned[i] = returned[j]

\* The findings of a file with an issue, and a file's first line that holds a call
\* of create.
IssueCount(o, issue) == Cardinality({i \in DOMAIN o.findings : o.findings[i].issue = issue})
FirstCallLine(path) == FirstLine(LinesOf(path), IF IsPython(path) THEN "create(" ELSE ".create(")
\* The file holds a completion-style call: a line calls completions.create.
HasCompletionCall(path) ==
    \E p \in DOMAIN LinesOf(path) :
        Has(LinesOf(path)[p], "completions.create") /\ Has(LinesOf(path)[p], "create(")
MentionsIdempotency(path) ==
    \E p \in DOMAIN LinesOf(path) : HasLower(LinesOf(path)[p], "idempotency")

\* C16 (as claimed): the file-scoped rules report once per file: a file the scan has
\* read gets at most one missing-idempotency-key finding and at most one
\* no-request-id-tracking finding, each at the first line of the file that holds the
\* call; and a file with a completion-style call and no mention of "idempotency" gets
\* exactly one missing-idempotency-key finding.
C16_FileScopedRulesOncePerFile ==
    \A k \in DOMAIN scanlog :
        LET o == scanlog[k]
        IN  o.opened =>
              /\ IssueCount(o, "Missing idempotency key") <= 1
              /\ IssueCount(o, "No request ID tracking") <= 1
              /\ \A i \in DOMAIN o.findings :
                    o.findings[i].issue \in {"Missing idempotency key", "No request ID tracking"}
                        => o.findings[i].line = FirstCallLine(o.path)
              /\ (HasCompletionCall(o.path) /\ ~MentionsIdempotency(o.path))
                    => IssueCount(o, "Missing idempotency key") = 1

\* A path below the root has a hidden-directory or a vendor-directory component.
UnderExcludedDirectory(path) ==
    \E i \in 1..(Len(path) - 1) : StartsWithDot(path[i]) \/ path[i] = "node_modules"
Included == {i \in DOMAIN tree : ~UnderExcludedDirectory(tree[i].path)}

\* C19 (as claimed): scan examines, counts and reports findings for no file whose
\* path below the root has a hidden-directory or a node_modules component.
C19_ScanSkipsHiddenAndVendor ==
    /\ \A k \in DOMAIN scanlog : ~UnderExcludedDirectory(scanlog[k].path)
    /\ \A i \in DOMAIN findings : ~UnderExcludedDirectory(findings[i].file)
    /\ \A r \in DOMAIN returned : returned[r].total_files <= Cardinality(Included)

\* C17: every check that run_checks ran returned the status its own findings give by
\* the one rule: fail if a finding has severity error, otherwise warn if a finding
\* has severity warning, otherwise pass.
HasSeverity(fs, severity) == \E i \in DOMAIN fs : fs[i].severity = severity
RuleStatus(fs) ==
    IF HasSeverity(fs, "error") THEN "fail"
    ELSE IF HasSeverity(fs, "warning") THEN "warn"
    ELSE "pass"
C17_StatusFollowsFindings ==
    \A i \in DOMAIN results :
        results[i].result.status = RuleStatus(results[i].result.findings)

\* C18 (as claimed): _find_source_files returns exactly the files below the root
\* that have a source extension and, below the root, no component that starts with
\* '.' or is node_modules, each once, wherever the root itself lies.
HiddenOrVendor(part) == StartsWithDot(part) \/ part = "node_modules"
Qualifying ==
    {i \in DOMAIN tree :
        /\ tree[i].isfile
        /\ Suffix(Name(tree[i])) \in {".js", ".ts", ".jsx", ".tsx", ".py"}
        /\ \A k \in DOMAIN tree[i].path : ~HiddenOrVendor(tree[i].path[k])}
C18_FindSourceFilesExact ==
    spc = "returned" =>
        /\ {found[k] : k \in DOMAIN found} = {root \o tree[i].path : i \in Qualifying}
        /\ Len(found) = Cardinality(Qualifying)

\* C20 (as claimed): a file that cannot be read or decoded is skipped by both passes:
\* scan_for_fixes does not raise and returns the fixes of the readable files, in
\* order, as if the unreadable one were absent; scan() appends no finding for it.
RECURSIVE FixesOfReadable(_)
FixesOfReadable(n) ==
    IF n = 0 THEN <<>>
    ELSE FixesOfReadable(n - 1)
         \o (IF Readable(Files[n]) THEN FileFixes(Files[n], disk[Files[n]]) ELSE <<>>)
C20_UnreadableFileSkipped ==
    /\ pc # "scan_raised"
    /\ pc = "scanned" => selfFixes = FixesOfReadable(Len(Files))
    /\ \A k \in DOMAIN scanlog :
          ~EntryOf(scanlog[k].path).readable => scanlog[k].findings = <<>>

\* C30: scan_for_fixes starts from an empty list on every call: a call changes no
\* file, and the second call on one CodeFixer, over a tree whose content is what it
\* was at the first call, returns a list equal to the one the first call returned.
C30_ScanStartsEmpty ==
    [][scans' # scans =>
          /\ disk' = disk
          /\ (Len(scans) = 1 /\ disk = disk0) => selfFixes' = scans[1]]_vars
C30_Witness == Len(scans) = 2 /\ scans[1] # <<>> /\ disk = disk0

\* C29 (as claimed): once apply_fixes, in apply mode, has applied without error every
\* fix the first scan_for_fixes returned, a second scan_for_fixes returns no fix.
C29_SecondScanFindsNothing ==
    (/\ Len(scans) = 2
     /\ ~dry_run
     /\ input = scans[1]
     /\ result.applied = scans[1]
     /\ result.errors = <<>>)
        => scans[2] = <<>>

\* C28 (as claimed): in apply mode every fix placed in applied has changed its file:
\* what _apply_fix wrote for it differs from what it had read.
ReadOf(i) == log[CHOOSE k \in DOMAIN log : log[k].op = "read" /\ log[k].i = i]
C28_AppliedFixChangedFile ==
    \A k \in DOMAIN log :
        log[k].op = "write" => log[k].content # ReadOf(log[k].i).content

\* C27 (as claimed): in apply mode a fix that ends in errors leaves its file as
\* _apply_fix read it: the content after the failure is the content before the
\* attempt.
FailureOps == {"open_failed", "edit_failed", "write_failed", "write_raised"}
C27_FailedFixLeavesFile ==
    \A k \in DOMAIN log :
        (/\ log[k].op \in FailureOps
         /\ \E r \in DOMAIN log : log[r].op = "read" /\ log[r].i = log[k].i)
            => log[k].content = ReadOf(log[k].i).content

\* C25: after scan_for_fixes, for every line of a.py that is a trigger of a detector,
\* the detector's fix is proposed at that line, and only there, exactly when no line
\* of the forward window that starts at the trigger line holds a satisfying token:
\* 10 lines for X-Accel-Buffering, 15 lines for timeout/max_retries, for max_tokens
\* and for x-request-id/idempotency; a token further on does not count.
ScannedLines == SplitLines(disk[FileA])
Proposed(issue, p) ==
    \E k \in DOMAIN selfFixes :
        selfFixes[k].file = FileA /\ selfFixes[k].issue = issue /\ selfFixes[k].line = p
NoTokenWithin(p, w, tokens) ==
    \A q \in DOMAIN ScannedLines :
        (p <= q /\ q < p + w) => \A t \in tokens : ~Has(ScannedLines[q], t)
CallLine(p) == Has(ScannedLines[p], ".create") \/ Has(ScannedLines[p], "completions")
C25_ForwardWindows ==
    pc = "scanned" =>
        /\ \A k \in DOMAIN selfFixes :
              selfFixes[k].file = FileA => selfFixes[k].line \in DOMAIN ScannedLines
        /\ \A p \in DOMAIN ScannedLines :
              /\ Proposed("streaming-headers", p) <=>
                    /\ Has(ScannedLines[p], "stream=True") \/ Has(ScannedLines[p], "stream: true")
                    /\ NoTokenWithin(p, 10, {"X-Accel-Buffering"})
              /\ Proposed("missing-timeout", p) <=>
                    /\ \E pat \in {"client.chat", "openai.", "anthropic."} :
                          Has(ScannedLines[p], pat)
                    /\ CallLine(p)
                    /\ NoTokenWithin(p, 15, {"timeout", "max_retries"})
              /\ Proposed("missing-max-tokens", p) <=>
                    /\ CallLine(p)
                    /\ Has(ScannedLines[p], "messages") \/ Has(ScannedLines[p], "prompt")
                    /\ NoTokenWithin(p, 15, {"max_tokens"})
              /\ Proposed("missing-request-id", p) <=>
                    /\ CallLine(p)
                    /\ NoTokenWithin(p, 15, {"x-request-id", "idempotency"})
\* A token on the first line after the window, and the fix proposed all the same; in
\* another file the token on the window's last line, and no fix.
C25_Witness ==
    /\ pc = "scanned"
    /\ \E p \in DOMAIN ScannedLines :
          /\ p + 15 \in DOMAIN ScannedLines
          /\ Has(ScannedLines[p + 15], "timeout")
          /\ Proposed("missing-timeout", p)

\* C22: every finding of a scan has a line number between 1 and the number of lines
\* of its file, and its code_snippet is that line of the file without the whitespace
\* at its two ends.
FileLine(f) == SrcText(EntryOf(f.file).src[f.line])
Trimmed(line) ==
    LET solid == {t \in DOMAIN line : line[t].s # "    "}
    IN  IF solid = {} THEN <<>>
        ELSE SubSeq(line, CHOOSE a \in solid : \A b \in solid : a <= b,
                          CHOOSE a \in solid : \A b \in solid : a >= b)
C22_SnippetIsTrimmedLine ==
    \A k \in DOMAIN findings :
        /\ findings[k].line \in 1..Len(EntryOf(findings[k].file).src)
        /\ findings[k].code_snippet = Trimmed(FileLine(findings[k]))
\* A finding on an indented line, of a scan that returned.
C22_Witness ==
    /\ spc = "returned"
    /\ \E k \in DOMAIN findings :
          /\ findings[k].line \in 1..Len(EntryOf(findings[k].file).src)
          /\ findings[k].code_snippet # FileLine(findings[k])
          /\ findings[k].code_snippet # <<>>

\* C23: while scan() goes through the files, self.findings only grows at its end: the
\* findings it held stay, in their places and as they were, and what a file's scan
\* appends is every finding of that file's rules, those on one line included.
C23_FindingsAppendOnly ==
    [][spc = "files" =>
          /\ Len(findings') >= Len(findings)
          /\ SubSeq(findings', 1, Len(findings)) = findings
          /\ Len(scanlog') > Len(scanlog) =>
                SubSeq(findings', Len(findings) + 1, Len(findings'))
                    = scanlog'[Len(scanlog')].findings]_vars
\* Two rules fired on one line of a file, and a later file added findings after them.
C23_Witness ==
    /\ spc = "returned"
    /\ \E i, j, k \in DOMAIN findings :
          /\ i < j /\ j < k
          /\ findings[i].file = findings[j].file /\ findings[i].line = findings[j].line
          /\ findings[i].issue # findings[j].issue
          /\ findings[k].file # findings[j].file

\* C21: the scan of a Python file with a completion call with model="gpt-4" and
\* stream=True, no max_tokens and no timeout, in a `for attempt in range(15)` loop with
\* time.sleep(1) and no mention of idempotency, has a finding of each of the six kinds.
AllIssuesScanned ==
    /\ spc = "returned"
    /\ tree[1].path = <<"a.py">> /\ tree[1].src = AllIssuesSrc /\ tree[1].readable
Reported(issue, severity, category) ==
    \E k \in DOMAIN findings :
        /\ findings[k].file = <<"a.py">>
        /\ findings[k].issue = issue
        /\ findings[k].severity \in severity
        /\ findings[k].category = category
C21_AllIssuesReported ==
    AllIssuesScanned =>
        /\ Reported("Missing max_tokens parameter", {"warning"}, "cost")
        /\ Reported("Missing timeout parameter", {"warning"}, "streaming")
        /\ Reported("Streaming enabled without timeout", {"warning"}, "streaming")
        /\ Reported("Too many retry attempts (15)", {"error"}, "retries")
        /\ Reported("Linear backoff instead of exponential", {"warning"}, "retries")
        /\ Reported("Missing idempotency key", {"info", "warning", "error"}, "traceability")

\* C26: for every call the structural pass has checked, the name _get_call_name gives
\* has one segment for each node of the callee's attribute chain, the root identifier
\* first and the called attribute last; a bare identifier gives that identifier alone;
\* and two calls with the same callee expression get the same name.
C26_CallNameRootToLeaf ==
    \A k \in DOMAIN calls :
        k < cpos =>
            LET func == calls[k].func
                name == _get_call_name(calls[k])
            IN  /\ Len(name) = Len(func)
                /\ \A i \in DOMAIN name : name[i] = func[Len(func) + 1 - i].v
                /\ func[Len(func)].node = "Name" /\ name[1] = func[Len(func)].v
                /\ Len(func) = 1 => name = <<func[1].v>>
                /\ \A j \in DOMAIN calls :
                      calls[j].func = func => _get_call_name(calls[j]) = name
\* A call through client.chat.completions.create and a call of a bare name, both checked.
C26_Witness ==
    /\ cpos = 3
    /\ _get_call_name(calls[1]) = <<"client", "chat", "completions", "create">>
    /\ Len(calls[2].func) = 1 /\ _get_call_name(calls[2]) = <<"print">>

\* C24: once should_prompt has run, prompting is allowed exactly when -i was given,
\* stdin and stdout are terminals and --ci was not given; whenever -i was given off a
\* terminal the error was printed and the process exited with status 2; and with
\* --ci prompting is never allowed.
OnTty == prompt.stdin_isatty /\ prompt.stdout_isatty
C24_ShouldPrompt ==
    prompt.at \in {"prompted", "welcomed", "exited"} =>
        /\ (prompt.at # "exited" /\ prompt.can_prompt)
              <=> (prompt.interactive_flag /\ OnTty /\ ~prompt.ci)
        /\ (prompt.interactive_flag /\ ~OnTty) =>
              /\ prompt.at = "exited" /\ prompt.status = 2
              /\ SubSeq(prompt.echoed, 1, 2) = NotATty
        /\ prompt.ci => ~prompt.can_prompt

====
